---- MODULE Spec2Model ----
(***************************************************************************)
(* MedTracker: the REST API over the record store (server.ts and its       *)
(* SQLite predecessors), the analytics aggregator, and the client-side     *)
(* reminder engine (App.tsx checkReminders).                               *)
(*                                                                         *)
(* Time is counted in slots; SlotsPerMinute slots make one minute of the   *)
(* wall clock, MinutesPerDay minutes one calendar day.  A timestamp        *)
(* (Date.now(), taken_at, snoozed_until) is a slot number, the HH:mm       *)
(* string of a timestamp is its minute of the day and the yyyy-MM-dd       *)
(* string is its day number.  A nullable column is a sequence of length    *)
(* at most one.                                                            *)
(***************************************************************************)
EXTENDS Integers, Sequences, FiniteSets, TLC

VARIABLES
    variant,        \* which server of the repository is running
    dbConnected,    \* isDbConnected / mongoose.connection.readyState === 1
    users,          \* users table: id -> row
    medicines,      \* medicines table, in insertion order
    logs,           \* logs table, in insertion order
    nextUserId,     \* AUTOINCREMENT / ObjectId generators
    nextMedId,
    nextLogId,
    now,            \* the wall clock, in slots
    response,       \* the answer to the last HTTP request
    observe,        \* whether the data of response bodies is recorded
    token,          \* useAuthStore token of the page session
    medicinesRef,   \* medicinesRef.current (the medicines state)
    logsRef,        \* logsRef.current (the logs state)
    lastReminded,   \* lastRemindedRef.current: the keys marked 'triggered'
    notificationHistory,
    activeReminder,
    fired,          \* the medicines the last polling tick fired a reminder for
    skipped,        \* the medicines it found at their reminder time and did not fire
    tickedMinute,   \* whether a polling tick has run in the current minute
    analytics,      \* the analytics state: the daily series last installed
    adherenceStats, \* the useMemo value computed from analytics
    user,           \* the user of the auth store
    behaviorAnalysis,
    dbError,        \* the body of the 503 shown in the connectivity banner, or null
    toasts,         \* the toasts shown, oldest first
    alerts,         \* the messages of the alert() calls, oldest first
    fetching        \* the call of the page in progress (a refresh, a request): its position

serverVars == <<variant, dbConnected, users, medicines, logs,
                nextUserId, nextMedId, nextLogId, response>>
clientVars == <<token, medicinesRef, logsRef, lastReminded, notificationHistory,
                activeReminder, fired, skipped, tickedMinute>>
pageVars == <<analytics, adherenceStats, user, behaviorAnalysis, dbError, toasts,
              alerts, fetching>>
vars == <<variant, dbConnected, users, medicines, logs, nextUserId, nextMedId,
          nextLogId, now, response, observe, token, medicinesRef, logsRef, lastReminded,
          notificationHistory, activeReminder, fired, skipped, tickedMinute,
          analytics, adherenceStats, user, behaviorAnalysis, dbError, toasts,
          alerts, fetching>>

-----------------------------------------------------------------------------
(* Bounds of the model *)

MaxUsers == 2
MaxMeds == 1
MaxLogs == 2
SlotsPerMinute == 2
MinutesPerDay == 2
MaxDay == 1

SlotsPerDay == SlotsPerMinute * MinutesPerDay
MaxNow == (MaxDay + 1) * SlotsPerDay - 1

UserIds == 1..MaxUsers
MedIds == 1..MaxMeds
Variants == {"mongo", "sqlite", "sqlite_legacy", "sqlite_legacy_fk"}
Names == {"A", "B"}
Statuses == {"taken", "missed"}
Sounds == {"default", "chime"}
Languages == {"en", "ta"}

\* The legacy SQLite server (no authenticateToken user lookup, no cascade).
isLegacy == variant \in {"sqlite_legacy", "sqlite_legacy_fk"}

\* Whether SQLite enforces the FOREIGN KEY clauses of the schema. The newer SQLite
\* server sets PRAGMA foreign_keys = ON; the legacy server sets no pragma, so
\* enforcement is whatever the SQLite build defaults to: both are modelled.
foreignKeys == variant \in {"sqlite", "sqlite_legacy_fk"}

(* Optional values: <<>> is null / undefined, <<v>> is v. *)
Opt(S) == {<<>>} \cup {<<v>> : v \in S}
IsSet(o) == Len(o) > 0
Val(o) == o[1]

-----------------------------------------------------------------------------
(* Clock conversions *)

\* format(now, 'yyyy-MM-dd') and taken_at.split('T')[0]
DateOf(t) == t \div SlotsPerDay
\* format(now, 'HH:mm')
MinuteOf(t) == (t % SlotsPerDay) \div SlotsPerMinute
\* isSameDay(a, b)
isSameDay(a, b) == DateOf(a) = DateOf(b)

-----------------------------------------------------------------------------
(* Sequence helpers *)

Range(s) == {s[i] : i \in DOMAIN s}

\* Medicine.find({ user_id }) / SELECT * FROM medicines WHERE user_id = ?
MedsOf(u) == SelectSeq(medicines, LAMBDA m : m.user_id = u)
\* Log.find({ user_id }) / SELECT * FROM logs WHERE user_id = ?
LogsOf(u) == SelectSeq(logs, LAMBDA l : l.user_id = u)

\* Medicine.findOne({ _id }) as a set of rows: empty when the id is unknown
MedById(id) == {m \in Range(medicines) : m.id = id}

-----------------------------------------------------------------------------
(* Requests and responses *)

TokenNone == [kind |-> "none", id |-> 0]
TokenInvalid == [kind |-> "invalid", id |-> 0]
TokenOf(u) == [kind |-> "valid", id |-> u]
\* jwt.verify accepts every token signed with JWT_SECRET, whether or not the
\* user id it carries is (still) a row of the users table.
Tokens == {TokenNone, TokenInvalid} \cup {TokenOf(u) : u \in UserIds}

\* The answer to a request: the HTTP status, the shape of the body, and the data
\* of the body, which the handler fills in.
Answer(status, body) ==
    [status |-> status, body |-> body,
     meds |-> <<>>, logs |-> <<>>, series |-> <<>>, delays |-> <<>>,
     snoozed_until |-> <<>>, user |-> <<>>, medicineStats |-> <<>>]

NoResponse == Answer(0, "none")

\* The data of a response body, kept only in the specifications that read it.
Data(x) == IF observe THEN x ELSE <<>>

\* app.use("/api", ...) database status middleware; the SQLite servers open the
\* database file synchronously and have no such middleware.
dbStatus(route) ==
    IF variant = "mongo" /\ ~dbConnected /\ route # "GET /health" THEN 503 ELSE 0

\* authenticateToken: 0 stands for next()
authenticateToken(tok) ==
    IF tok.kind = "none" THEN 401
    ELSE IF tok.kind = "invalid" THEN 403
    ELSE IF ~isLegacy /\ tok.id \notin DOMAIN users THEN 401
    ELSE 0

\* The middleware chain with authenticateToken in front of the status middleware.
GateAuthFirst(route, tok) ==
    IF authenticateToken(tok) # 0 THEN authenticateToken(tok) ELSE dbStatus(route)

\* The middleware chain in front of an authenticated route, in registration order.
Gate(route, tok) ==
    IF dbStatus(route) # 0 THEN dbStatus(route) ELSE authenticateToken(tok)

\* The body sent with a status the middleware chain answers with.
GateBody(status, tok) ==
    IF status = 503 THEN "error+message"
    ELSE IF status = 401 /\ tok.kind = "valid" THEN "error"
    ELSE "status text"

Rejected(route, tok) ==
    /\ Gate(route, tok) # 0
    /\ response' = Answer(Gate(route, tok), GateBody(Gate(route, tok), tok))
    /\ UNCHANGED <<users, medicines, logs, nextUserId, nextMedId, nextLogId>>

storeVars == <<users, medicines, logs, nextUserId, nextMedId, nextLogId>>

-----------------------------------------------------------------------------
(* Public routes *)

\* GET /api/health: registered in front of authenticateToken and exempt from
\* the database status middleware.
GetHealth(tok) ==
    /\ response' = Answer(200, "ok")
    /\ UNCHANGED storeVars

\* POST /api/auth/signup: the unique index on email makes a second signup fail.
Signup(tok, email) ==
    /\ IF dbStatus("POST /auth/signup") # 0
       THEN /\ response' = Answer(503, "error+message")
            /\ UNCHANGED storeVars
       ELSE IF \E u \in DOMAIN users : users[u].email = email
       THEN /\ response' = Answer(400, "error")
            /\ UNCHANGED storeVars
       ELSE /\ nextUserId <= MaxUsers
            /\ users' = [u \in DOMAIN users \cup {nextUserId} |->
                            IF u = nextUserId
                            THEN [email |-> email, reminder_sound |-> <<"default">>,
                                  language |-> "en"]
                            ELSE users[u]]
            /\ nextUserId' = nextUserId + 1
            /\ response' = Answer(200, "token")
            /\ UNCHANGED <<medicines, logs, nextMedId, nextLogId>>

\* POST /api/auth/login: match is the outcome of bcrypt.compare.
Login(tok, email, match) ==
    /\ response' =
         IF dbStatus("POST /auth/login") # 0
         THEN Answer(503, "error+message")
         ELSE IF (\E u \in DOMAIN users : users[u].email = email) /\ match
         THEN Answer(200, "token")
         ELSE Answer(401, "error")
    /\ UNCHANGED storeVars

-----------------------------------------------------------------------------
(* User routes *)

SettingsBodies == [reminder_sound : Opt(Sounds), language : Opt(Languages)]

\* The row of user u after PUT /api/user/settings with this body.
updateSettings(row, body) ==
    IF isLegacy
    THEN [row EXCEPT !.reminder_sound = body.reminder_sound]
    ELSE [row EXCEPT
            !.language = IF IsSet(body.language) THEN Val(body.language) ELSE @,
            !.reminder_sound = IF IsSet(body.reminder_sound)
                               THEN body.reminder_sound ELSE @]

\* PUT /api/user/settings: User.findByIdAndUpdate(req.user.id, update)
PutSettings(tok, body) ==
    \/ Rejected("PUT /user/settings", tok)
    \/ /\ Gate("PUT /user/settings", tok) = 0
       /\ users' = [u \in DOMAIN users |->
                       IF u = tok.id THEN updateSettings(users[u], body) ELSE users[u]]
       /\ response' = Answer(200, "success")
       /\ UNCHANGED <<medicines, logs, nextUserId, nextMedId, nextLogId>>

\* GET /api/user/me (absent from the legacy server)
GetMe(tok) ==
    /\ ~isLegacy
    /\ \/ Rejected("GET /user/me", tok)
       \/ /\ Gate("GET /user/me", tok) = 0
          /\ response' = [Answer(200, "data") EXCEPT !.user = Data(<<users[tok.id]>>)]
          /\ UNCHANGED storeVars

-----------------------------------------------------------------------------
(* Medicine routes *)

Minutes == 0..(MinutesPerDay - 1)
\* req.body of POST and PUT /api/medicines; user_id is a field a client may add.
MedicineBodies == [name : Names, reminder_time : Opt(Minutes), user_id : Opt(UserIds)]

\* The filter { _id: req.params.id, user_id: req.user.id } / WHERE id = ? AND user_id = ?
Owned(m, id, u) == m.id = id /\ m.user_id = u

\* GET /api/medicines
GetMedicines(tok) ==
    \/ Rejected("GET /medicines", tok)
    \/ /\ Gate("GET /medicines", tok) = 0
       /\ response' = [Answer(200, "data")
                         EXCEPT !.meds = Data(MedsOf(tok.id))]
       /\ UNCHANGED storeVars

\* Medicine.create({ ...req.body, user_id: req.user.id }) / INSERT INTO medicines
newMedicine(u, body) ==
    [id |-> nextMedId, user_id |-> u, name |-> body.name,
     reminder_time |-> body.reminder_time, snoozed_until |-> <<>>]

\* FOREIGN KEY(user_id) REFERENCES users(id) and FOREIGN KEY(medicine_id)
\* REFERENCES medicines(id): an INSERT of a row of user u that references these
\* medicines fails when a referenced row is missing.
insertViolatesForeignKey(u, medicine_ids) ==
    /\ foreignKeys
    /\ u \notin DOMAIN users \/ \E id \in medicine_ids : MedById(id) = {}

\* POST /api/medicines
PostMedicine(tok, body) ==
    \/ Rejected("POST /medicines", tok)
    \/ /\ Gate("POST /medicines", tok) = 0
       /\ IF insertViolatesForeignKey(tok.id, {})
          THEN /\ response' = Answer(500, "error")
               /\ UNCHANGED storeVars
          ELSE /\ nextMedId <= MaxMeds
               /\ medicines' = Append(medicines, newMedicine(tok.id, body))
               /\ nextMedId' = nextMedId + 1
               /\ response' = Answer(200, "data")
               /\ UNCHANGED <<users, logs, nextUserId, nextLogId>>

\* The row after findOneAndUpdate(filter, req.body) (every field of the body is
\* set) or after UPDATE medicines SET name = ?, ..., reminder_time = ?.
updateMedicine(m, body) ==
    IF variant = "mongo"
    THEN [m EXCEPT !.name = body.name, !.reminder_time = body.reminder_time,
                   !.user_id = IF IsSet(body.user_id) THEN Val(body.user_id) ELSE @]
    ELSE [m EXCEPT !.name = body.name, !.reminder_time = body.reminder_time]

\* PUT /api/medicines/:id: answers { success: true } whatever the update matched.
PutMedicine(tok, id, body) ==
    \/ Rejected("PUT /medicines/:id", tok)
    \/ /\ Gate("PUT /medicines/:id", tok) = 0
       /\ medicines' = [i \in DOMAIN medicines |->
                          IF Owned(medicines[i], id, tok.id)
                          THEN updateMedicine(medicines[i], body) ELSE medicines[i]]
       /\ response' = Answer(200, "success")
       /\ UNCHANGED <<users, logs, nextUserId, nextMedId, nextLogId>>

\* Log.deleteMany({ medicine_id, user_id }) / DELETE FROM logs WHERE medicine_id = ?
\* AND user_id = ?; the legacy server deletes no log.
deleteLogs(id, u) ==
    IF isLegacy THEN logs
    ELSE SelectSeq(logs, LAMBDA l : ~(l.medicine_id = id /\ l.user_id = u))

\* Medicine.deleteOne({ _id, user_id }) / DELETE FROM medicines WHERE id = ? AND user_id = ?
deleteMed(id, u) == SelectSeq(medicines, LAMBDA m : ~Owned(m, id, u))

\* PRAGMA foreign_keys = ON: deleting a medicine row a log still references fails,
\* and db.transaction rolls both statements back.
deleteViolatesForeignKey(id, u) ==
    /\ foreignKeys
    /\ \E m \in Range(medicines) : Owned(m, id, u)
    /\ \E l \in Range(deleteLogs(id, u)) : l.medicine_id = id

\* The status DELETE /api/medicines/:id answers with.
deleteStatus(id, u) ==
    IF deleteViolatesForeignKey(id, u) THEN 500
    ELSE IF isLegacy THEN 200
    ELSE IF \E m \in Range(medicines) : Owned(m, id, u) THEN 200
    ELSE 404

\* DELETE /api/medicines/:id
DeleteMedicine(tok, id) ==
    \/ Rejected("DELETE /medicines/:id", tok)
    \/ /\ Gate("DELETE /medicines/:id", tok) = 0
       /\ IF deleteViolatesForeignKey(id, tok.id)
          THEN UNCHANGED <<medicines, logs>>
          ELSE /\ logs' = deleteLogs(id, tok.id)
               /\ medicines' = deleteMed(id, tok.id)
       /\ response' = Answer(deleteStatus(id, tok.id),
                             IF deleteStatus(id, tok.id) = 200 THEN "success" ELSE "error")
       /\ UNCHANGED <<users, nextUserId, nextMedId, nextLogId>>

SnoozeMinutes == {-1, 0, 1}

\* A snooze that lasts a minute at least.
snoozedUntilLater(minutes) == now + (IF minutes <= 0 THEN 1 ELSE minutes) * SlotsPerMinute

\* new Date(Date.now() + minutes * 60000)
snoozedUntil(minutes) == now + minutes * SlotsPerMinute

\* POST /api/medicines/:id/snooze: answers success whatever the update matched.
SnoozeMedicine(tok, id, minutes) ==
    \/ Rejected("POST /medicines/:id/snooze", tok)
    \/ /\ Gate("POST /medicines/:id/snooze", tok) = 0
       /\ medicines' = [i \in DOMAIN medicines |->
                          IF Owned(medicines[i], id, tok.id)
                          THEN [medicines[i] EXCEPT
                                  !.snoozed_until = <<snoozedUntil(minutes)>>]
                          ELSE medicines[i]]
       /\ response' = [Answer(200, "success")
                         EXCEPT !.snoozed_until = Data(<<snoozedUntil(minutes)>>)]
       /\ UNCHANGED <<users, logs, nextUserId, nextMedId, nextLogId>>

-----------------------------------------------------------------------------
(* Log routes *)

\* req.body of POST /api/logs; user_id is a field a client may add.
LogBody(medicine_id, taken_at, status, user_id) ==
    [medicine_id |-> medicine_id, taken_at |-> taken_at, status |-> status,
     user_id |-> user_id]

\* Log.create({ ...req.body, user_id: req.user.id }) / INSERT INTO logs
newLog(u, body) ==
    [id |-> nextLogId, medicine_id |-> body.medicine_id, user_id |-> u,
     taken_at |-> body.taken_at, status |-> body.status]


\* A POST /api/logs that stores a dose once: a body that equals a stored row of
\* the user is answered without a second insert.
PostLogOnce(tok, body) ==
    \/ Rejected("POST /logs", tok)
    \/ /\ Gate("POST /logs", tok) = 0
       /\ IF insertViolatesForeignKey(tok.id, {body.medicine_id})
          THEN /\ response' = Answer(500, "error")
               /\ UNCHANGED storeVars
          ELSE IF \E l \in Range(logs) :
                     /\ l.user_id = tok.id /\ l.medicine_id = body.medicine_id
                     /\ l.taken_at = body.taken_at /\ l.status = body.status
          THEN /\ response' = Answer(200, "data")
               /\ UNCHANGED storeVars
          ELSE /\ nextLogId <= MaxLogs
               /\ logs' = Append(logs, newLog(tok.id, body))
               /\ nextLogId' = nextLogId + 1
               /\ response' = Answer(200, "data")
               /\ UNCHANGED <<users, medicines, nextUserId, nextMedId>>

\* POST /api/logs
PostLog(tok, body) ==
    \/ Rejected("POST /logs", tok)
    \/ /\ Gate("POST /logs", tok) = 0
       /\ IF insertViolatesForeignKey(tok.id, {body.medicine_id})
          THEN /\ response' = Answer(500, "error")
               /\ UNCHANGED storeVars
          ELSE /\ nextLogId <= MaxLogs
               /\ logs' = Append(logs, newLog(tok.id, body))
               /\ nextLogId' = nextLogId + 1
               /\ response' = Answer(200, "data")
               /\ UNCHANGED <<users, medicines, nextUserId, nextMedId>>

\* The rows of s, all with taken_at in lo..hi, latest first, rows with equal
\* taken_at in the order they have in s.
RECURSIVE takenBetween(_, _, _)
takenBetween(s, lo, hi) ==
    IF Len(s) <= 1 \/ lo = hi THEN s
    ELSE LET mid == (lo + hi) \div 2
         IN takenBetween(SelectSeq(s, LAMBDA l : l.taken_at > mid), mid + 1, hi)
            \o takenBetween(SelectSeq(s, LAMBDA l : l.taken_at <= mid), lo, mid)

\* .sort({ taken_at: -1 }) / ORDER BY l.taken_at DESC: a stable sort, rows with
\* equal taken_at keep their insertion order.
sortDesc(s) ==
    IF Len(s) <= 1 THEN s
    ELSE LET times == {s[i].taken_at : i \in DOMAIN s}
         IN takenBetween(s, CHOOSE t \in times : \A x \in times : t <= x,
                            CHOOSE t \in times : \A x \in times : t >= x)

\* medMap.get(l.medicine_id) || "Unknown" over the user's medicines
medicineName(u, id) ==
    IF \E m \in Range(MedsOf(u)) : m.id = id
    THEN (CHOOSE m \in Range(MedsOf(u)) : m.id = id).name
    ELSE "Unknown"

withName(l, name) ==
    [id |-> l.id, medicine_id |-> l.medicine_id, user_id |-> l.user_id,
     taken_at |-> l.taken_at, status |-> l.status, medicine_name |-> name]

\* The rows GET /api/logs answers with. The SQLite servers join logs with
\* medicines on the medicine id alone, so a log without a medicine row is left out.
logsWithNames(u) ==
    IF variant = "mongo"
    THEN LET sorted == sortDesc(LogsOf(u))
         IN [i \in DOMAIN sorted |->
               withName(sorted[i], medicineName(u, sorted[i].medicine_id))]
    ELSE LET joined == SelectSeq(sortDesc(LogsOf(u)),
                                 LAMBDA l : MedById(l.medicine_id) # {})
         IN [i \in DOMAIN joined |->
               withName(joined[i],
                        (CHOOSE m \in MedById(joined[i].medicine_id) : TRUE).name)]

\* GET /api/logs
GetLogs(tok) ==
    \/ Rejected("GET /logs", tok)
    \/ /\ Gate("GET /logs", tok) = 0
       /\ response' = [Answer(200, "data")
                         EXCEPT !.logs = Data(logsWithNames(tok.id))]
       /\ UNCHANGED storeVars

-----------------------------------------------------------------------------
(* Analytics aggregator *)

DailyLimit == 30
DelayLimit == 50

\* statsMap after logs.forEach: one entry per date, in the order in which the
\* dates are first seen (a Map keeps insertion order), each counting the logs
\* of its date and those among them with status 'taken'.
statsMap(ls) ==
    LET dateAt(i) == DateOf(ls[i].taken_at)
        firsts == SelectSeq([i \in DOMAIN ls |-> i],
                            LAMBDA i : \A j \in 1..(i - 1) : dateAt(j) # dateAt(i))
    IN [k \in DOMAIN firsts |->
          [date |-> dateAt(firsts[k]),
           total |-> Cardinality({i \in DOMAIN ls : dateAt(i) = dateAt(firsts[k])}),
           taken |-> Cardinality({i \in DOMAIN ls :
                                    /\ dateAt(i) = dateAt(firsts[k])
                                    /\ ls[i].status = "taken"})]]

\* The entries of s whose date lies in lo..hi, earliest first, entries of one
\* date in the order they have in s.
RECURSIVE datedBetween(_, _, _)
datedBetween(s, lo, hi) ==
    IF lo = hi THEN SelectSeq(s, LAMBDA e : e.date = lo)
    ELSE datedBetween(s, lo, (lo + hi) \div 2) \o datedBetween(s, (lo + hi) \div 2 + 1, hi)

\* .sort((a, b) => a.date.localeCompare(b.date)) / ORDER BY date ASC: a stable
\* sort by date.
sortByDate(s) ==
    IF s = <<>> THEN <<>>
    ELSE LET dates == {s[i].date : i \in DOMAIN s}
         IN datedBetween(s, CHOOSE d \in dates : \A x \in dates : d <= x,
                            CHOOSE d \in dates : \A x \in dates : d >= x)

\* A slice that keeps the whole array.
sliceNone(s, n) == s

\* Array.prototype.slice(-n)
sliceLast(s, n) == IF Len(s) <= n THEN s ELSE SubSeq(s, Len(s) - n + 1, Len(s))
\* LIMIT n
limitFirst(s, n) == IF Len(s) <= n THEN s ELSE SubSeq(s, 1, n)

\* The daily series of GET /api/analytics.
dailySeries(u) ==
    IF variant = "mongo"
    THEN sliceLast(sortByDate(statsMap(LogsOf(u))), DailyLimit)
    ELSE limitFirst(sortByDate(statsMap(LogsOf(u))), DailyLimit)

\* GET /api/analytics
GetAnalytics(tok) ==
    \/ Rejected("GET /analytics", tok)
    \/ /\ Gate("GET /analytics", tok) = 0
       /\ response' = [Answer(200, "data")
                         EXCEPT !.series = Data(dailySeries(tok.id))]
       /\ UNCHANGED storeVars

\* The same difference with the seconds of takenTime cut off.
delayOfWholeMinutes(taken_at, reminder_time) ==
    (MinuteOf(taken_at) - reminder_time) * SlotsPerMinute

\* (takenTime.getTime() - reminderTime.getTime()), reminderTime being the day of
\* takenTime at remH:remM; in slots.
delayOf(taken_at, reminder_time) ==
    taken_at - (DateOf(taken_at) * SlotsPerDay + reminder_time * SlotsPerMinute)

\* diffMinutes: the difference / 60000, a fraction of minutes: num / den.
diffMinutes(taken_at, reminder_time) ==
    [num |-> delayOf(taken_at, reminder_time), den |-> SlotsPerMinute]

\* The medicine a log's delay is measured against: medicines.find over the
\* user's medicines, or the SQL JOIN on the medicine id alone.
delayMedicine(u, l) ==
    IF variant = "mongo"
    THEN {m \in Range(MedsOf(u)) : m.id = l.medicine_id}
    ELSE MedById(l.medicine_id)

\* The delay samples before the slice, in log order.
delaySamples(u) ==
    LET taken == SelectSeq(LogsOf(u), LAMBDA l :
                    /\ l.status = "taken"
                    /\ \E m \in delayMedicine(u, l) : IsSet(m.reminder_time))
    IN [i \in DOMAIN taken |->
          LET m == CHOOSE m \in delayMedicine(u, taken[i]) : TRUE
          IN [name |-> m.name,
              delay |-> diffMinutes(taken[i].taken_at, Val(m.reminder_time))]]

\* delays.slice(-50)
delays(u) == sliceLast(delaySamples(u), DelayLimit)

\* The logs counted for medicine m of user u: logs.filter over the user's logs,
\* or the SQL LEFT JOIN logs l ON m.id = l.medicine_id, which takes the logs of
\* every user.
statLogs(u, m) ==
    IF variant = "mongo"
    THEN {i \in DOMAIN logs : logs[i].user_id = u /\ logs[i].medicine_id = m.id}
    ELSE {i \in DOMAIN logs : logs[i].medicine_id = m.id}

\* medicineStats: per medicine of the user, its name and the number of logs and
\* of 'taken' logs counted for it.
medicineStats(u) ==
    [k \in DOMAIN MedsOf(u) |->
        [name |-> MedsOf(u)[k].name,
         total |-> Cardinality(statLogs(u, MedsOf(u)[k])),
         taken |-> Cardinality({i \in statLogs(u, MedsOf(u)[k]) :
                                  logs[i].status = "taken"})]]

\* GET /api/behavior-analysis (absent from the legacy server)
GetBehaviorAnalysis(tok) ==
    /\ ~isLegacy
    /\ \/ Rejected("GET /behavior-analysis", tok)
       \/ /\ Gate("GET /behavior-analysis", tok) = 0
          /\ response' = [Answer(200, "data")
                            EXCEPT !.delays = Data(delays(tok.id)),
                                   !.medicineStats = Data(medicineStats(tok.id))]
          /\ UNCHANGED storeVars

-----------------------------------------------------------------------------
(* Reminder engine: App.tsx checkReminders *)

HistoryLimit == 10

\* logsRef.current.find(l => l.medicine_id === med.id): the first log of the
\* medicine in the snapshot, as a set (empty when there is none)
lastLog(med, snapshot) ==
    LET idx == {i \in DOMAIN snapshot : snapshot[i].medicine_id = med.id}
    IN IF idx = {} THEN {}
       ELSE {snapshot[CHOOSE i \in idx : \A j \in idx : i <= j]}

\* lastLog && isSameDay(parseISO(lastLog.taken_at), now)
isTakenToday(med, snapshot, at) ==
    \E l \in lastLog(med, snapshot) : isSameDay(l.taken_at, at)

\* A snooze check that never finds a medicine snoozed.
isSnoozedNever(med, at) == FALSE

\* med.snoozed_until && parseISO(med.snoozed_until) > now
isSnoozed(med, at) ==
    IsSet(med.snoozed_until) /\ Val(med.snoozed_until) > at

\* A comparison that takes every minute from the reminder time on.
isReminderTimeOrLater(med, at) ==
    IsSet(med.reminder_time) /\ Val(med.reminder_time) <= MinuteOf(at)

\* med.reminder_time === currentTimeStr
isReminderTime(med, at) == med.reminder_time = <<MinuteOf(at)>>

\* `${med.id}-${todayStr}-${currentTimeStr}`
reminderKey(med, at) == <<med.id, DateOf(at), MinuteOf(at)>>

\* A firing condition that lets one reminder through per minute, whatever the
\* medicine.
shouldFireOncePerMinute(med, snapshot, at, reminded) ==
    /\ IsSet(med.reminder_time)
    /\ ~isTakenToday(med, snapshot, at)
    /\ ~isSnoozed(med, at)
    /\ isReminderTime(med, at)
    /\ ~\E key \in reminded : key[2] = DateOf(at) /\ key[3] = MinuteOf(at)

\* The firing condition without the lookup of the key in lastRemindedRef.
shouldFireIgnoringKey(med, snapshot, at, reminded) ==
    /\ IsSet(med.reminder_time)
    /\ ~isTakenToday(med, snapshot, at)
    /\ ~isSnoozed(med, at)
    /\ isReminderTime(med, at)

\* The condition under which the forEach body fires the reminder of med.
shouldFire(med, snapshot, at, reminded) ==
    /\ IsSet(med.reminder_time)
    /\ ~isTakenToday(med, snapshot, at)
    /\ ~isSnoozed(med, at)
    /\ isReminderTime(med, at)
    /\ reminderKey(med, at) \notin reminded

\* [entry, ...prev] without the slice
pushHistoryUncapped(history, entry) == <<entry>> \o history

\* [entry, ...prev].slice(0, 10)
pushHistory(history, entry) ==
    IF Len(history) >= HistoryLimit
    THEN <<entry>> \o SubSeq(history, 1, HistoryLimit - 1)
    ELSE <<entry>> \o history

\* One pass of medicinesRef.current.forEach over the medicines meds, from the
\* engine state acc.
RECURSIVE checkAll(_, _, _, _)
checkAll(meds, snapshot, at, acc) ==
    IF meds = <<>> THEN acc
    ELSE LET med == Head(meds)
         IN IF shouldFire(med, snapshot, at, acc.reminded)
            THEN checkAll(Tail(meds), snapshot, at,
                    [reminded |-> acc.reminded \cup {reminderKey(med, at)},
                     history |-> pushHistory(acc.history,
                                    [medName |-> med.name, time |-> MinuteOf(at),
                                     date |-> DateOf(at)]),
                     active |-> <<med.id>>,
                     fired |-> Append(acc.fired, med.id),
                     skipped |-> acc.skipped])
            ELSE checkAll(Tail(meds), snapshot, at,
                    [acc EXCEPT !.skipped = IF isReminderTime(med, at)
                                            THEN Append(@, med.id) ELSE @])

\* setInterval(checkReminders, 10000), set up while a token is held
checkReminders ==
    /\ token.kind = "valid"
    /\ LET done == checkAll(medicinesRef, logsRef, now,
                      [reminded |-> lastReminded, history |-> notificationHistory,
                       active |-> activeReminder, fired |-> <<>>,
                       skipped |-> <<>>])
       IN /\ lastReminded' = done.reminded
          /\ notificationHistory' = done.history
          /\ activeReminder' = done.active
          /\ fired' = done.fired
          /\ skipped' = done.skipped
    /\ tickedMinute' = TRUE
    /\ UNCHANGED <<token, medicinesRef, logsRef, now>>
    /\ UNCHANGED serverVars /\ UNCHANGED observe /\ UNCHANGED pageVars

\* The page and the server read the wall clock once a minute at most: the clock
\* moves on by one minute; timestamps that clients send (taken_at) fall on any
\* slot.
ClockStep == SlotsPerMinute

AdvanceClock ==
    /\ now + ClockStep <= MaxNow
    /\ now' = now + ClockStep
    /\ tickedMinute' = IF (now + ClockStep) \div SlotsPerMinute = now \div SlotsPerMinute
                     THEN tickedMinute ELSE FALSE
    /\ UNCHANGED <<token, medicinesRef, logsRef, lastReminded, notificationHistory,
                   activeReminder, fired, skipped>>
    /\ UNCHANGED serverVars /\ UNCHANGED observe /\ UNCHANGED pageVars

-----------------------------------------------------------------------------
(* The store's connection *)

\* mongoose.connect resolves: isDbConnected = true / readyState becomes 1
DbConnect ==
    /\ variant = "mongo" /\ ~dbConnected
    /\ dbConnected' = TRUE
    /\ UNCHANGED <<variant, users, medicines, logs, nextUserId, nextMedId,
                   nextLogId, now, response, observe>>

\* the connection is lost: readyState leaves 1
DbDisconnect ==
    /\ variant = "mongo" /\ dbConnected
    /\ dbConnected' = FALSE
    /\ UNCHANGED <<variant, users, medicines, logs, nextUserId, nextMedId,
                   nextLogId, now, response, observe>>

-----------------------------------------------------------------------------
(* The API server under requests of any client *)

Emails == UserIds

InitStore ==
    /\ variant \in Variants
    /\ dbConnected = (variant # "mongo")
    /\ users = <<>>
    /\ medicines = <<>>
    /\ logs = <<>>
    /\ nextUserId = 1
    /\ nextMedId = 1
    /\ nextLogId = 1
    /\ response = NoResponse

InitClient ==
    /\ token = TokenNone
    /\ medicinesRef = <<>>
    /\ logsRef = <<>>
    /\ lastReminded = {}
    /\ notificationHistory = <<>>
    /\ activeReminder = <<>>
    /\ fired = <<>>
    /\ skipped = <<>>
    /\ tickedMinute = FALSE

\* The page state outside the reminder engine, before anything is loaded.
InitPage ==
    /\ analytics = <<>>
    /\ adherenceStats = [streak |-> 0]
    /\ user = <<>>
    /\ behaviorAnalysis = <<>>
    /\ dbError = <<>>
    /\ toasts = <<>>
    /\ alerts = <<>>
    /\ fetching = [pc |-> "idle"]

InitServer == InitStore /\ InitClient /\ InitPage /\ now = 0 /\ observe = FALSE

ServerMedicineBodies == {b \in MedicineBodies : b.reminder_time = <<0>>}
ServerSettingsBodies == {b \in SettingsBodies : b.reminder_sound = <<>> /\ b.language # <<"en">>}

\* A request leaves the server's configuration, the clock and the page alone.
Served(handler) ==
    /\ handler
    /\ UNCHANGED <<variant, dbConnected, now, observe>>
    /\ UNCHANGED clientVars /\ UNCHANGED pageVars

NextServer ==
    \/ \E tok \in Tokens : Served(GetHealth(tok))
    \/ \E tok \in Tokens, e \in 1..nextUserId : Served(Signup(tok, e))
    \/ \E tok \in Tokens, e \in Emails, match \in BOOLEAN : Served(Login(tok, e, match))
    \/ \E tok \in Tokens, b \in ServerSettingsBodies : Served(PutSettings(tok, b))
    \/ \E tok \in Tokens : Served(GetMe(tok))
    \/ \E tok \in Tokens : Served(GetMedicines(tok))
    \/ \E tok \in Tokens, b \in ServerMedicineBodies : Served(PostMedicine(tok, b))
    \/ \E tok \in Tokens, id \in MedIds, b \in ServerMedicineBodies :
          Served(PutMedicine(tok, id, b))
    \/ \E tok \in Tokens, id \in MedIds : Served(DeleteMedicine(tok, id))
    \/ \E tok \in Tokens, id \in MedIds : Served(SnoozeMedicine(tok, id, 1))
    \/ \E tok \in Tokens : Served(GetLogs(tok))
    \/ \E tok \in Tokens, id \in MedIds, u \in Opt(UserIds) :
          Served(PostLog(tok, LogBody(id, now, "taken", u)))
    \/ \E tok \in Tokens : Served(GetAnalytics(tok))
    \/ \E tok \in Tokens : Served(GetBehaviorAnalysis(tok))
    \/ DbConnect /\ UNCHANGED clientVars /\ UNCHANGED pageVars
    \/ DbDisconnect /\ UNCHANGED clientVars /\ UNCHANGED pageVars

SpecServer == InitServer /\ [][NextServer]_vars

-----------------------------------------------------------------------------
(* The page of a logged-in user against the server *)

\* What fetchData installs, given the server's state store: the medicines and
\* logs are replaced only when no response is a 503 and the responses are ok;
\* otherwise the state is left as it is.
refreshed(tok, old, fresh) == IF Gate("GET /medicines", tok) = 0 THEN fresh ELSE old

\* fetchData, as the effect on mounting the page with a token runs it
fetchData ==
    /\ token.kind = "valid"
    /\ medicinesRef' = refreshed(token, medicinesRef, MedsOf(token.id))
    /\ logsRef' = refreshed(token, logsRef, logsWithNames(token.id))
    /\ UNCHANGED <<token, lastReminded, notificationHistory, activeReminder, fired,
                   skipped, tickedMinute, now, observe>>
    /\ UNCHANGED serverVars /\ UNCHANGED pageVars

\* A handler of the page: the request runs on the server and, if (res.ok), the
\* handler's fetchData() installs the medicines and logs of the store after it.
Requested(handler) ==
    /\ token.kind = "valid"
    /\ handler
    /\ UNCHANGED <<variant, dbConnected, now, observe>>
    /\ UNCHANGED <<token, lastReminded, notificationHistory, fired, skipped,
                   tickedMinute>>
    /\ IF response'.status = 200
       THEN /\ medicinesRef' = MedsOf(token.id)'
            /\ logsRef' = logsWithNames(token.id)'
       ELSE UNCHANGED <<medicinesRef, logsRef>>

\* A handler that shows nothing when the request fails.
Called(handler) == Requested(handler) /\ UNCHANGED pageVars

\* A request of another client of the same user: the page's state is untouched.
Elsewhere(handler) ==
    /\ token.kind = "valid"
    /\ handler
    /\ UNCHANGED <<variant, dbConnected, now, observe>>
    /\ UNCHANGED clientVars /\ UNCHANGED pageVars

SnapshotIds == {medicinesRef[i].id : i \in DOMAIN medicinesRef}

\* The alert() calls and the toasts that are kept apart.
MaxAlerts == 2
MaxToasts == 2

\* The body of handleAddMedicine without editingMedicine: POST /api/medicines,
\* and alert("Failed to save medicine: ...") if the response is not ok.
addMedicine(body) ==
    /\ Len(alerts) < MaxAlerts
    /\ Requested(PostMedicine(token, body))
    /\ alerts' = IF response'.status = 200 THEN alerts
                 ELSE Append(alerts, "Failed to save medicine")
    /\ UNCHANGED <<activeReminder, analytics, adherenceStats, user, behaviorAnalysis,
                   dbError, fetching>>

\* handleAddMedicine as the form's onSubmit calls it
handleAddMedicine(body) == addMedicine(body) /\ UNCHANGED toasts

\* handleLogDose: POST /api/logs with taken_at: new Date().toISOString()
handleLogDose(id) ==
    Called(PostLog(token, LogBody(id, now, "taken", <<>>))) /\ UNCHANGED activeReminder

\* handleTakeNow: handleLogDose(activeReminder.id), then setActiveReminder(null)
handleTakeNow ==
    /\ IsSet(activeReminder)
    /\ Called(PostLog(token, LogBody(Val(activeReminder), now, "taken", <<>>)))
    /\ activeReminder' = <<>>

\* handleSnooze from the medicine list
handleSnooze(id, minutes) ==
    Called(SnoozeMedicine(token, id, minutes)) /\ UNCHANGED activeReminder

\* The modal's snooze buttons: handleSnooze(activeReminder.id, ...), then
\* setActiveReminder(null)
snoozeActiveReminder(minutes) ==
    /\ IsSet(activeReminder)
    /\ Called(SnoozeMedicine(token, Val(activeReminder), minutes))
    /\ activeReminder' = <<>>

\* The modal's Dismiss button
dismissReminder ==
    /\ IsSet(activeReminder)
    /\ activeReminder' = <<>>
    /\ UNCHANGED <<token, medicinesRef, logsRef, lastReminded, notificationHistory,
                   fired, skipped, tickedMinute, now, observe>>
    /\ UNCHANGED serverVars /\ UNCHANGED pageVars

\* handleDeleteMedicine: DELETE /api/medicines/:id
handleDeleteMedicine(id) ==
    Called(DeleteMedicine(token, id)) /\ UNCHANGED activeReminder

\* Another client of the same user (a second device, whose clock may be ahead)
\* posts a dose log: POST /api/logs stores the taken_at of the body as it is.
postLogElsewhere(id, taken_at) ==
    Elsewhere(PostLog(token, LogBody(id, taken_at, "taken", <<>>)))

ClientSnoozeMinutes == {1}
ClientMedicineBodies == {b \in MedicineBodies : b.name = "A" /\ b.user_id = <<>>}

Init ==
    /\ variant \in Variants
    /\ dbConnected = TRUE
    /\ users = (1 :> [email |-> 1, reminder_sound |-> <<"default">>, language |-> "en"])
    /\ medicines = <<>>
    /\ logs = <<>>
    /\ nextUserId = 2
    /\ nextMedId = 1
    /\ nextLogId = 1
    /\ response = NoResponse
    /\ observe = FALSE
    /\ now = 0
    /\ token = TokenOf(1)
    /\ medicinesRef = <<>>
    /\ logsRef = <<>>
    /\ lastReminded = {}
    /\ notificationHistory = <<>>
    /\ activeReminder = <<>>
    /\ fired = <<>>
    /\ skipped = <<>>
    /\ tickedMinute = FALSE
    /\ InitPage

Next ==
    \/ checkReminders
    \/ AdvanceClock
    \/ fetchData
    \/ \E b \in ClientMedicineBodies : handleAddMedicine(b)
    \/ \E id \in SnapshotIds : handleLogDose(id)
    \/ handleTakeNow
    \/ \E id \in SnapshotIds, d \in ClientSnoozeMinutes : handleSnooze(id, d)
    \/ \E d \in ClientSnoozeMinutes : snoozeActiveReminder(d)
    \/ dismissReminder
    \/ \E id \in SnapshotIds : handleDeleteMedicine(id)
    \/ \E id \in MedIds : postLogElsewhere(id, now + SlotsPerDay)

Spec == Init /\ [][Next]_vars

-----------------------------------------------------------------------------
(* fetchData step by step: the five requests of Promise.all, the check for a
   503, and one setState after each await safeJson(...).  The steps of other
   callbacks of the page (a polling tick among them) and of the server run
   between the awaits. *)

\* The responses of a refresh, in the order of the array of Promise.all.
FetchCount == 5

\* What authenticatedFetch resolves to when the hosting platform or the API
\* loader answers 503 without a JSON body through all its retries.
PlatformUnavailable == Answer(503, "text")

\* What it resolves to for a path the server has no API route for: the page's
\* index.html, through all its retries.
NotAnApiRoute == Answer(200, "html")

\* The route of the k-th request of fetchData.
fetchRoute(k) ==
    IF k = 1 THEN GetMedicines(token)
    ELSE IF k = 2 THEN GetLogs(token)
    ELSE IF k = 3 THEN GetAnalytics(token)
    ELSE IF k = 4 THEN GetMe(token)
    ELSE GetBehaviorAnalysis(token)

\* const fetchData = async () => { ... Promise.all([...five authenticatedFetch...])
\* The five requests are sent together: they reach the server, or none does.
startFetch(reached) ==
    /\ token.kind = "valid"
    /\ fetching.pc = "idle"
    /\ fetching' = [pc |-> "requests", reached |-> reached, res |-> <<>>,
                    installed |-> FALSE]
    /\ UNCHANGED <<analytics, adherenceStats, user, behaviorAnalysis, dbError, toasts,
                   alerts>>
    /\ UNCHANGED clientVars /\ UNCHANGED serverVars /\ UNCHANGED <<now, observe>>

\* One authenticatedFetch of the refresh resolves.
fetchRespond ==
    /\ fetching.pc = "requests"
    /\ Len(fetching.res) < FetchCount
    /\ LET k == Len(fetching.res) + 1
       IN IF ~fetching.reached
          THEN /\ fetching' = [fetching EXCEPT !.res = Append(@, PlatformUnavailable)]
               /\ UNCHANGED serverVars
          ELSE IF isLegacy /\ k > 3
          THEN /\ fetching' = [fetching EXCEPT !.res = Append(@, NotAnApiRoute)]
               /\ UNCHANGED serverVars
          ELSE /\ fetchRoute(k)
               /\ fetching' = [fetching EXCEPT !.res = Append(@, response')]
               /\ UNCHANGED <<variant, dbConnected>>
    /\ UNCHANGED <<analytics, adherenceStats, user, behaviorAnalysis, dbError, toasts,
                   alerts>>
    /\ UNCHANGED clientVars /\ UNCHANGED <<now, observe>>

\* [medsRes, ...].find(r => r.status === 503)
anyRes(res) ==
    IF \E k \in DOMAIN res : res[k].status = 503
    THEN <<res[CHOOSE k \in DOMAIN res :
                   res[k].status = 503 /\ \A j \in 1..(k - 1) : res[j].status # 503]>>
    ELSE <<>>

\* Whether res.json() of a response resolves.
isJson(r) == r.body \notin {"text", "html", "status text", "none"}

\* After Promise.all: the check for a 503.  anyRes.json() of a body that is not
\* JSON rejects, and the catch of fetchData logs the error.
fetchSettle ==
    /\ fetching.pc = "requests"
    /\ Len(fetching.res) = FetchCount
    /\ IF IsSet(anyRes(fetching.res))
       THEN /\ dbError' = IF isJson(Val(anyRes(fetching.res)))
                          THEN <<Val(anyRes(fetching.res)).body>> ELSE dbError
            /\ fetching' = [pc |-> "idle"]
       ELSE /\ dbError' = <<>>
            /\ fetching' = [fetching EXCEPT !.pc = "medicines"]
    /\ UNCHANGED <<analytics, adherenceStats, user, behaviorAnalysis, toasts, alerts>>
    /\ UNCHANGED clientVars /\ UNCHANGED serverVars /\ UNCHANGED <<now, observe>>

\* safeJson: the parsed body of an ok JSON response, else null
safeJson(r, data) == IF r.status = 200 /\ isJson(r) THEN <<data>> ELSE <<>>

\* const meds = await safeJson(medsRes); if (meds) setMedicines(meds);
installMedicines ==
    /\ fetching.pc = "medicines"
    /\ LET meds == safeJson(fetching.res[1], fetching.res[1].meds)
       IN /\ medicinesRef' = IF IsSet(meds) THEN Val(meds) ELSE medicinesRef
          /\ fetching' = [fetching EXCEPT !.pc = "logs", !.installed = IsSet(meds)]
    /\ UNCHANGED <<token, logsRef, lastReminded, notificationHistory, activeReminder,
                   fired, skipped, tickedMinute>>
    /\ UNCHANGED <<analytics, adherenceStats, user, behaviorAnalysis, dbError, toasts,
                   alerts>>
    /\ UNCHANGED serverVars /\ UNCHANGED <<now, observe>>

\* const logsData = await safeJson(logsRes); if (logsData) setLogs(logsData);
installLogs ==
    /\ fetching.pc = "logs"
    /\ LET logsData == safeJson(fetching.res[2], fetching.res[2].logs)
       IN logsRef' = IF IsSet(logsData) THEN Val(logsData) ELSE logsRef
    /\ fetching' = [fetching EXCEPT !.pc = "analytics"]
    /\ UNCHANGED <<token, medicinesRef, lastReminded, notificationHistory,
                   activeReminder, fired, skipped, tickedMinute>>
    /\ UNCHANGED <<analytics, adherenceStats, user, behaviorAnalysis, dbError, toasts,
                   alerts>>
    /\ UNCHANGED serverVars /\ UNCHANGED <<now, observe>>

\* const stats = await safeJson(statsRes); if (stats) setAnalytics(stats);
installAnalytics ==
    /\ fetching.pc = "analytics"
    /\ LET stats == safeJson(fetching.res[3], fetching.res[3].series)
       IN analytics' = IF IsSet(stats) THEN Val(stats) ELSE analytics
    /\ fetching' = [fetching EXCEPT !.pc = "user"]
    /\ UNCHANGED <<adherenceStats, user, behaviorAnalysis, dbError, toasts, alerts>>
    /\ UNCHANGED clientVars /\ UNCHANGED serverVars /\ UNCHANGED <<now, observe>>

\* const userData = await safeJson(userRes); if (userData) setAuth(userData, token!);
installUser ==
    /\ fetching.pc = "user"
    /\ LET userData == safeJson(fetching.res[4], fetching.res[4].user)
       IN user' = IF IsSet(userData) THEN Val(userData) ELSE user
    /\ fetching' = [fetching EXCEPT !.pc = "behavior"]
    /\ UNCHANGED <<analytics, adherenceStats, behaviorAnalysis, dbError, toasts, alerts>>
    /\ UNCHANGED clientVars /\ UNCHANGED serverVars /\ UNCHANGED <<now, observe>>

\* const behaviorData = await safeJson(behaviorRes);
\* if (behaviorData) setBehaviorAnalysis(behaviorData);
installBehavior ==
    /\ fetching.pc = "behavior"
    /\ LET behaviorData == safeJson(fetching.res[5], fetching.res[5].delays)
       IN behaviorAnalysis' = IF IsSet(behaviorData) THEN behaviorData
                              ELSE behaviorAnalysis
    /\ fetching' = [pc |-> "idle"]
    /\ UNCHANGED <<analytics, adherenceStats, user, dbError, toasts, alerts>>
    /\ UNCHANGED clientVars /\ UNCHANGED serverVars /\ UNCHANGED <<now, observe>>

\* Another client of the same user adds a medicine.
addMedicineElsewhere(body) == Elsewhere(PostMedicine(token, body))

\* The page of a user who has just logged in, answers recorded.
InitRefresh ==
    /\ variant \in Variants
    /\ dbConnected = TRUE
    /\ users = (1 :> [email |-> 1, reminder_sound |-> <<"default">>, language |-> "en"])
    /\ medicines = <<>>
    /\ logs = <<>>
    /\ nextUserId = 2 /\ nextMedId = 1 /\ nextLogId = 1
    /\ response = NoResponse
    /\ observe = TRUE
    /\ now = 0
    /\ token = TokenOf(1)
    /\ medicinesRef = <<>>
    /\ logsRef = <<>>
    /\ lastReminded = {}
    /\ notificationHistory = <<>>
    /\ activeReminder = <<>>
    /\ fired = <<>>
    /\ skipped = <<>>
    /\ tickedMinute = FALSE
    /\ InitPage

NextRefresh ==
    \/ \E reached \in BOOLEAN : startFetch(reached)
    \/ fetchRespond
    \/ fetchSettle
    \/ installMedicines
    \/ installLogs
    \/ installAnalytics
    \/ installUser
    \/ installBehavior
    \/ checkReminders
    \/ DbConnect /\ UNCHANGED clientVars /\ UNCHANGED pageVars
    \/ DbDisconnect /\ UNCHANGED clientVars /\ UNCHANGED pageVars
    \/ \E b \in ClientMedicineBodies : addMedicineElsewhere(b)
    \/ \E id \in MedIds : postLogElsewhere(id, now)

SpecRefresh == InitRefresh /\ [][NextRefresh]_vars

\* What parseMedicineInput does with the text of the user: the model call
\* rejects, the text of its answer is not JSON, or the answer parses.
ParseOutcomes == {"rejected", "not_json", "parsed"}

\* The message of the error parseMedicineInput throws.
parseError(outcome) ==
    IF outcome = "rejected" THEN "generateContent failed"
    ELSE "Could not understand the medicine instructions. Please try again."

\* A handler that saves and announces whatever the parse gave.
handleAiParseUnchecked(outcome, parsed) ==
    /\ Len(toasts) < MaxToasts
    /\ addMedicine(parsed)
    /\ toasts' = Append(toasts, [message |-> "Added", type |-> "success"])

\* handleAiParse with a non-empty aiInput; parsed is the object the text parses to.
handleAiParse(outcome, parsed) ==
    IF outcome = "parsed"
    THEN /\ Len(toasts) < MaxToasts
         /\ addMedicine(parsed)
         /\ toasts' = Append(toasts, [message |-> "Added", type |-> "success"])
    ELSE /\ Len(alerts) < MaxAlerts
         /\ alerts' = Append(alerts, parseError(outcome))
         /\ UNCHANGED <<analytics, adherenceStats, user, behaviorAnalysis, dbError,
                        toasts, fetching>>
         /\ UNCHANGED clientVars /\ UNCHANGED serverVars /\ UNCHANGED <<now, observe>>

\* setTimeout(() => setToasts(prev => prev.filter(t => t.id !== id)), 5000)
expireToast ==
    /\ toasts # <<>>
    /\ toasts' = Tail(toasts)
    /\ UNCHANGED <<analytics, adherenceStats, user, behaviorAnalysis, dbError,
                   alerts, fetching>>
    /\ UNCHANGED clientVars /\ UNCHANGED serverVars /\ UNCHANGED <<now, observe>>

NextAssistant ==
    \/ \E outcome \in ParseOutcomes, parsed \in ClientMedicineBodies :
          handleAiParse(outcome, parsed)
    \/ \E b \in ClientMedicineBodies : handleAddMedicine(b)
    \/ \E id \in SnapshotIds : handleDeleteMedicine(id)
    \/ expireToast
    \/ fetchData

SpecAssistant == Init /\ [][NextAssistant]_vars

\* A client of the API other than the page snoozes a medicine of the user for
\* any number of minutes: the route takes req.body.minutes as it is.
snoozeElsewhere(id, minutes) == Elsewhere(SnoozeMedicine(token, id, minutes))

\* The page of a user who has a medicine with a reminder time, answers recorded.
InitSnooze ==
    /\ variant \in Variants
    /\ dbConnected = TRUE
    /\ users = (1 :> [email |-> 1, reminder_sound |-> <<"default">>, language |-> "en"])
    /\ \E reminder_time \in Minutes :
          medicines = <<[id |-> 1, user_id |-> 1, name |-> "A",
                         reminder_time |-> <<reminder_time>>, snoozed_until |-> <<>>]>>
    /\ logs = <<>>
    /\ nextUserId = 2 /\ nextMedId = 2 /\ nextLogId = 1
    /\ response = NoResponse
    /\ observe = TRUE
    /\ now = 0
    /\ token = TokenOf(1)
    /\ medicinesRef = medicines
    /\ logsRef = <<>>
    /\ lastReminded = {}
    /\ notificationHistory = <<>>
    /\ activeReminder = <<>>
    /\ fired = <<>>
    /\ skipped = <<>>
    /\ tickedMinute = FALSE
    /\ InitPage

NextSnooze ==
    \/ checkReminders
    \/ AdvanceClock
    \/ fetchData
    \/ \E id \in SnapshotIds, d \in ClientSnoozeMinutes : handleSnooze(id, d)
    \/ \E d \in ClientSnoozeMinutes : snoozeActiveReminder(d)
    \/ \E id \in MedIds, d \in SnoozeMinutes : snoozeElsewhere(id, d)
    \/ dismissReminder

SpecSnooze == InitSnooze /\ [][NextSnooze]_vars

-----------------------------------------------------------------------------
(* authenticatedFetch attempt by attempt, under handleLogDose.  While a call is
   in progress the variable fetching holds its position: the retries it was
   called with (n), the retries left, what each attempt so far gave, and the
   number of rows the logs table had when the call began. *)

MaxRetries == 2
Retries == 0..MaxRetries

\* What the hosting platform answers in place of the server: a 503 without a
\* JSON body, or an HTML page.
PlatformAnswers == {PlatformUnavailable, NotAnApiRoute}

\* const shouldRetry = isWarmup || (res.status === 503 && !isJson) ||
\*                     (!isJson && res.status === 200 && url.startsWith('/api/'))
shouldRetry(r) ==
    \/ r.body = "html"
    \/ r.status = 503 /\ ~isJson(r)
    \/ ~isJson(r) /\ r.status = 200

\* One attempt that gave a response / that threw.
Responded(r) == [kind |-> "response", res |-> r]
Threw == [kind |-> "error", res |-> NoResponse]

\* A call that gives up as soon as an attempt throws.
afterAttemptNoRetryOnError(f, outcome) ==
    LET g == [f EXCEPT !.outcomes = Append(@, outcome)]
    IN IF outcome.kind = "error" THEN [g EXCEPT !.pc = "threw"]
       ELSE IF shouldRetry(outcome.res) /\ f.retries > 0
       THEN [g EXCEPT !.retries = @ - 1]
       ELSE [g EXCEPT !.pc = "returned"]

\* The call after an attempt with this outcome: if (shouldRetry) { if (retries > 0)
\* return authenticatedFetch(url, options, retries - 1) } return res; and in the
\* catch: if (retries > 0) return authenticatedFetch(...retries - 1); throw e.
afterAttempt(f, outcome) ==
    LET g == [f EXCEPT !.outcomes = Append(@, outcome)]
    IN IF outcome.kind = "error"
       THEN IF f.retries > 0 THEN [g EXCEPT !.retries = @ - 1]
            ELSE [g EXCEPT !.pc = "threw"]
       ELSE IF shouldRetry(outcome.res) /\ f.retries > 0
       THEN [g EXCEPT !.retries = @ - 1]
       ELSE [g EXCEPT !.pc = "returned"]

\* handleLogDose up to its await: authenticatedFetch('/api/logs', { method:
\* 'POST', body: JSON.stringify({ medicine_id, taken_at: new Date()..., status:
\* 'taken' }) }, n).  The page passes no n (the default, 50).
startLogDose(id, n) ==
    /\ token.kind = "valid"
    /\ fetching.pc = "idle"
    /\ fetching' = [pc |-> "fetch", body |-> LogBody(id, now, "taken", <<>>),
                    n |-> n, retries |-> n, outcomes |-> <<>>,
                    logsBefore |-> Len(logs)]
    /\ UNCHANGED <<analytics, adherenceStats, user, behaviorAnalysis, dbError, toasts,
                   alerts>>
    /\ UNCHANGED clientVars /\ UNCHANGED serverVars /\ UNCHANGED <<now, observe>>

\* What an attempt leaves alone.
attemptFrame ==
    /\ UNCHANGED <<analytics, adherenceStats, user, behaviorAnalysis, dbError, toasts,
                   alerts>>
    /\ UNCHANGED clientVars /\ UNCHANGED <<variant, dbConnected, now, observe>>

\* await fetch(url, ...) resolves with the answer of the server.
attemptAnswered ==
    /\ fetching.pc = "fetch"
    /\ PostLog(token, fetching.body)
    /\ fetching' = afterAttempt(fetching, Responded(response'))
    /\ attemptFrame

\* await fetch(url, ...) resolves with an answer of the platform; the request
\* has not reached the server.
attemptAnsweredByPlatform(r) ==
    /\ fetching.pc = "fetch"
    /\ fetching' = afterAttempt(fetching, Responded(r))
    /\ UNCHANGED <<users, medicines, logs, nextUserId, nextMedId, nextLogId, response>>
    /\ attemptFrame

\* await fetch(url, ...) rejects and the request has not reached the server.
attemptFailed ==
    /\ fetching.pc = "fetch"
    /\ fetching' = afterAttempt(fetching, Threw)
    /\ UNCHANGED <<users, medicines, logs, nextUserId, nextMedId, nextLogId, response>>
    /\ attemptFrame

\* await fetch(url, ...) rejects after the server has handled the request: the
\* connection is lost or times out before the answer arrives.
attemptLost ==
    /\ fetching.pc = "fetch"
    /\ PostLog(token, fetching.body)
    /\ fetching' = afterAttempt(fetching, Threw)
    /\ attemptFrame

\* handleLogDose after its await: if (res.ok) fetchData(); the catch logs the error.
finishLogDose ==
    /\ fetching.pc \in {"returned", "threw"}
    /\ LET res == fetching.outcomes[Len(fetching.outcomes)].res
       IN IF fetching.pc = "returned" /\ res.status = 200
          THEN /\ medicinesRef' = refreshed(token, medicinesRef, MedsOf(token.id))
               /\ logsRef' = refreshed(token, logsRef, logsWithNames(token.id))
          ELSE UNCHANGED <<medicinesRef, logsRef>>
    /\ fetching' = [pc |-> "idle"]
    /\ UNCHANGED <<token, lastReminded, notificationHistory, activeReminder, fired,
                   skipped, tickedMinute>>
    /\ UNCHANGED <<analytics, adherenceStats, user, behaviorAnalysis, dbError, toasts,
                   alerts>>
    /\ UNCHANGED serverVars /\ UNCHANGED <<now, observe>>

\* One attempt of the call in progress settles.
attemptSettles ==
    \/ attemptAnswered
    \/ \E r \in PlatformAnswers : attemptAnsweredByPlatform(r)
    \/ attemptFailed
    \/ attemptLost

NextRetry ==
    \/ \E id \in SnapshotIds, n \in Retries : startLogDose(id, n)
    \/ attemptAnswered
    \/ \E r \in PlatformAnswers : attemptAnsweredByPlatform(r)
    \/ attemptFailed
    \/ attemptLost
    \/ finishLogDose
    \/ AdvanceClock
    \/ DbConnect /\ UNCHANGED clientVars /\ UNCHANGED pageVars
    \/ DbDisconnect /\ UNCHANGED clientVars /\ UNCHANGED pageVars

\* Every fetch settles (the network stack answers or gives up) and the timer of
\* the 4 s wait fires, so an attempt of a call in progress is taken in the end.
SpecRetry == InitSnooze /\ [][NextRetry]_vars /\ WF_vars(attemptSettles)

-----------------------------------------------------------------------------
(* DELETE /api/medicines/:id statement by statement.  The Mongo server awaits
   Log.deleteMany and then Medicine.deleteOne, and serves other requests in
   between; the SQLite servers run the route in one synchronous call.  While
   the page's delete is between its statements, fetching holds its position. *)

\* app.delete("/api/medicines/:id") up to the end of await Log.deleteMany(...)
deleteMedicineBegins(id) ==
    /\ token.kind = "valid"
    /\ variant = "mongo"
    /\ fetching.pc = "idle"
    /\ Gate("DELETE /medicines/:id", token) = 0
    /\ logs' = deleteLogs(id, token.id)
    /\ fetching' = [pc |-> "deleting", id |-> id]
    /\ UNCHANGED <<variant, dbConnected, users, medicines, nextUserId, nextMedId,
                   nextLogId, response>>
    /\ UNCHANGED <<analytics, adherenceStats, user, behaviorAnalysis, dbError, toasts,
                   alerts>>
    /\ UNCHANGED clientVars /\ UNCHANGED <<now, observe>>

\* await Medicine.deleteOne(...) and the answer; handleDeleteMedicine then runs
\* fetchData() if (res.ok).
deleteMedicineEnds ==
    /\ fetching.pc = "deleting"
    /\ medicines' = deleteMed(fetching.id, token.id)
    /\ response' = Answer(deleteStatus(fetching.id, token.id),
                          IF deleteStatus(fetching.id, token.id) = 200
                          THEN "success" ELSE "error")
    /\ UNCHANGED <<variant, dbConnected, users, logs, nextUserId, nextMedId, nextLogId>>
    /\ UNCHANGED token
    /\ IF response'.status = 200
       THEN /\ medicinesRef' = MedsOf(token.id)'
            /\ logsRef' = logsWithNames(token.id)'
       ELSE UNCHANGED <<medicinesRef, logsRef>>
    /\ fetching' = [pc |-> "idle"]
    /\ UNCHANGED <<lastReminded, notificationHistory, activeReminder, fired,
                   skipped, tickedMinute>>
    /\ UNCHANGED <<analytics, adherenceStats, user, behaviorAnalysis, dbError, toasts,
                   alerts>>
    /\ UNCHANGED <<now, observe>>

\* The route of the SQLite servers: one synchronous call, nothing in between.
deleteMedicineAtOnce(id) ==
    /\ variant # "mongo"
    /\ fetching.pc = "idle"
    /\ handleDeleteMedicine(id)

NextDelete ==
    \/ \E id \in MedIds : deleteMedicineBegins(id)
    \/ deleteMedicineEnds
    \/ \E id \in MedIds : deleteMedicineAtOnce(id)
    \/ \E id \in MedIds : postLogElsewhere(id, now)
    \/ AdvanceClock
    \/ fetchData

SpecDelete == InitSnooze /\ [][NextDelete]_vars

-----------------------------------------------------------------------------
(* handleLogDose with its refresh step by step: the POST is answered, fetchData()
   is called and not awaited, and the ticks of the reminder engine run while its
   requests and its installs are pending. *)

\* const res = await authenticatedFetch('/api/logs', ...); if (res.ok) fetchData();
\* the POST reaches the server and its answer the page.
logDoseAcknowledged(id, reached) ==
    /\ token.kind = "valid"
    /\ fetching.pc = "idle"
    /\ PostLog(token, LogBody(id, now, "taken", <<>>))
    /\ fetching' = IF response'.status = 200
                   THEN [pc |-> "requests", reached |-> reached, res |-> <<>>,
                         installed |-> FALSE]
                   ELSE fetching
    /\ UNCHANGED <<analytics, adherenceStats, user, behaviorAnalysis, dbError, toasts,
                   alerts>>
    /\ UNCHANGED clientVars /\ UNCHANGED <<variant, dbConnected, now, observe>>

NextLogDose ==
    \/ \E id \in SnapshotIds, reached \in BOOLEAN : logDoseAcknowledged(id, reached)
    \/ fetchRespond
    \/ fetchSettle
    \/ installMedicines
    \/ installLogs
    \/ installAnalytics
    \/ installUser
    \/ installBehavior
    \/ checkReminders
    \/ AdvanceClock

SpecLogDose == InitSnooze /\ [][NextLogDose]_vars

-----------------------------------------------------------------------------
(* Two refreshes at a time.  handleLogDose and handleSnooze each call fetchData()
   without awaiting it, so a second refresh may start while the first has
   requests or installs pending.  Here fetching holds both: older is the one
   started first, newer the one started after it. *)

Slots == {"older", "newer"}

NoData == [meds |-> <<>>, logs |-> <<>>, series |-> <<>>, user |-> <<>>, delays |-> <<>>]
NoRefresh == [pc |-> "none", res |-> NoData]
Started == [pc |-> "requests", res |-> NoData]

InProgress(r) == r.pc \notin {"none", "done"}

\* A third refresh at a time is left out.
canStart(f) == ~InProgress(f.older) \/ ~InProgress(f.newer)

\* fetching after fetchData() is called.
startRefresh(f) ==
    IF ~InProgress(f.older) /\ ~InProgress(f.newer) THEN [older |-> Started, newer |-> NoRefresh]
    ELSE IF InProgress(f.older) THEN [f EXCEPT !.newer = Started]
    ELSE [older |-> f.newer, newer |-> Started]

overlapFrame ==
    /\ UNCHANGED <<analytics, adherenceStats, user, behaviorAnalysis, dbError, toasts,
                   alerts>>
    /\ UNCHANGED clientVars /\ UNCHANGED <<variant, dbConnected, now, observe>>

\* handleLogDose: the POST is answered; if (res.ok) fetchData()
logDoseRefreshing(id) ==
    /\ token.kind = "valid"
    /\ canStart(fetching) /\ ~(InProgress(fetching.older) /\ fetching.newer.pc = "done")
    /\ PostLog(token, LogBody(id, now, "taken", <<>>))
    /\ fetching' = IF response'.status = 200 THEN startRefresh(fetching) ELSE fetching
    /\ overlapFrame

\* handleSnooze: the POST is answered; if (res.ok) fetchData()
snoozeRefreshing(id, minutes) ==
    /\ token.kind = "valid"
    /\ canStart(fetching) /\ ~(InProgress(fetching.older) /\ fetching.newer.pc = "done")
    /\ SnoozeMedicine(token, id, minutes)
    /\ fetching' = IF response'.status = 200 THEN startRefresh(fetching) ELSE fetching
    /\ overlapFrame

\* authenticatedFetch('/api/medicines') of the refresh in slot s is answered.
medicinesAnswered(s) ==
    /\ fetching[s].pc = "requests"
    /\ GetMedicines(token)
    /\ fetching' = [fetching EXCEPT ![s].pc = "requests2", ![s].res.meds = response'.meds]
    /\ overlapFrame

\* Its other four requests are answered and Promise.all resolves; no answer is a
\* 503, so setDbError(null).
othersAnswered(s) ==
    /\ fetching[s].pc = "requests2"
    /\ GetLogs(token)
    /\ response'.status = 200
    /\ fetching' = [fetching EXCEPT
                      ![s].pc = "medicines",
                      ![s].res.logs = response'.logs,
                      ![s].res.series = dailySeries(token.id),
                      ![s].res.user = IF isLegacy THEN <<>> ELSE <<users[token.id]>>,
                      ![s].res.delays = IF isLegacy THEN <<>> ELSE <<delays(token.id)>>]
    /\ dbError' = <<>>
    /\ UNCHANGED <<analytics, adherenceStats, user, behaviorAnalysis, toasts, alerts>>
    /\ UNCHANGED clientVars /\ UNCHANGED <<variant, dbConnected, now, observe>>

\* const meds = await safeJson(medsRes); if (meds) setMedicines(meds);
overlapInstallsMedicines(s) ==
    /\ fetching[s].pc = "medicines"
    /\ medicinesRef' = fetching[s].res.meds
    /\ fetching' = [fetching EXCEPT ![s].pc = "logs"]
    /\ UNCHANGED <<token, logsRef, lastReminded, notificationHistory, activeReminder,
                   fired, skipped, tickedMinute>>
    /\ UNCHANGED <<analytics, adherenceStats, user, behaviorAnalysis, dbError, toasts,
                   alerts>>
    /\ UNCHANGED serverVars /\ UNCHANGED <<now, observe>>

\* const logsData = await safeJson(logsRes); if (logsData) setLogs(logsData);
overlapInstallsLogs(s) ==
    /\ fetching[s].pc = "logs"
    /\ logsRef' = fetching[s].res.logs
    /\ fetching' = [fetching EXCEPT ![s].pc = "rest"]
    /\ UNCHANGED <<token, medicinesRef, lastReminded, notificationHistory,
                   activeReminder, fired, skipped, tickedMinute>>
    /\ UNCHANGED <<analytics, adherenceStats, user, behaviorAnalysis, dbError, toasts,
                   alerts>>
    /\ UNCHANGED serverVars /\ UNCHANGED <<now, observe>>

\* setAnalytics(stats), setAuth(userData, token), setBehaviorAnalysis(behaviorData),
\* each if its answer parsed; the legacy server has no route for the last two.
overlapInstallsRest(s) ==
    /\ fetching[s].pc = "rest"
    /\ analytics' = fetching[s].res.series
    /\ user' = IF IsSet(fetching[s].res.user) THEN Val(fetching[s].res.user) ELSE user
    /\ behaviorAnalysis' = IF IsSet(fetching[s].res.delays)
                           THEN fetching[s].res.delays ELSE behaviorAnalysis
    /\ fetching' = [fetching EXCEPT ![s].pc = "done"]
    /\ UNCHANGED <<adherenceStats, dbError, toasts, alerts>>
    /\ UNCHANGED clientVars /\ UNCHANGED serverVars /\ UNCHANGED <<now, observe>>

\* The page of a user who has a medicine with a reminder time, no refresh pending.
InitOverlap ==
    /\ variant \in Variants
    /\ dbConnected = TRUE
    /\ users = (1 :> [email |-> 1, reminder_sound |-> <<"default">>, language |-> "en"])
    /\ medicines = <<[id |-> 1, user_id |-> 1, name |-> "A",
                      reminder_time |-> <<0>>, snoozed_until |-> <<>>]>>
    /\ logs = <<>>
    /\ nextUserId = 2 /\ nextMedId = 2 /\ nextLogId = 1
    /\ response = NoResponse
    /\ observe = TRUE
    /\ now = 0
    /\ token = TokenOf(1)
    /\ medicinesRef = medicines
    /\ logsRef = <<>>
    /\ lastReminded = {}
    /\ notificationHistory = <<>>
    /\ activeReminder = <<>>
    /\ fired = <<>>
    /\ skipped = <<>>
    /\ tickedMinute = FALSE
    /\ analytics = <<>>
    /\ adherenceStats = [streak |-> 0]
    /\ user = <<>>
    /\ behaviorAnalysis = <<>>
    /\ dbError = <<>>
    /\ toasts = <<>>
    /\ alerts = <<>>
    /\ fetching = [older |-> NoRefresh, newer |-> NoRefresh]

NextOverlap ==
    \/ \E id \in SnapshotIds : logDoseRefreshing(id)
    \/ \E id \in SnapshotIds, d \in ClientSnoozeMinutes : snoozeRefreshing(id, d)
    \/ \E s \in Slots : medicinesAnswered(s)
    \/ \E s \in Slots : othersAnswered(s)
    \/ \E s \in Slots : overlapInstallsMedicines(s)
    \/ \E s \in Slots : overlapInstallsLogs(s)
    \/ \E s \in Slots : overlapInstallsRest(s)
    \/ AdvanceClock

SpecOverlap == InitOverlap /\ [][NextOverlap]_vars

-----------------------------------------------------------------------------
(* The server under the requests of two users, answers recorded *)

InitTenants ==
    /\ variant \in Variants
    /\ dbConnected = TRUE
    /\ users = [u \in UserIds |->
                  [email |-> u, reminder_sound |-> <<"default">>, language |-> "en"]]
    /\ medicines = <<>>
    /\ logs = <<>>
    /\ nextUserId = MaxUsers + 1 /\ nextMedId = 1 /\ nextLogId = 1
    /\ response = NoResponse
    /\ InitClient
    /\ InitPage
    /\ now = 0
    /\ observe = TRUE

\* A request of the user of the token that may write to the store.
TenantWrite(tok) ==
    \/ \E b \in ServerMedicineBodies : PostMedicine(tok, b)
    \/ \E id \in MedIds, b \in ServerMedicineBodies : PutMedicine(tok, id, b)
    \/ \E id \in MedIds : DeleteMedicine(tok, id)
    \/ \E id \in MedIds : SnoozeMedicine(tok, id, 1)
    \/ \E id \in MedIds : PostLog(tok, LogBody(id, now, "taken", <<>>))

\* A read of the user of the token.
TenantRead(tok) ==
    \/ GetMedicines(tok)
    \/ GetLogs(tok)
    \/ GetAnalytics(tok)
    \/ GetBehaviorAnalysis(tok)

NextTenants ==
    \/ \E u \in UserIds : Served(TenantWrite(TokenOf(u)))
    \/ \E u \in UserIds : Served(TenantRead(TokenOf(u)))

SpecTenants == InitTenants /\ [][NextTenants]_vars

-----------------------------------------------------------------------------
(* One page session with a logout and a login.  The App component stays
   mounted while no token is held (it renders the login form), so its state and
   its refs outlive the logout; the effect on [token] clears the polling
   interval when the token goes and, when a token comes, calls fetchData() and
   sets the interval up again. *)

\* logout of the auth store: the token and the user are dropped.
logout ==
    /\ token.kind = "valid"
    /\ fetching.pc = "idle"
    /\ token' = TokenNone
    /\ user' = <<>>
    /\ UNCHANGED <<medicinesRef, logsRef, lastReminded, notificationHistory,
                   activeReminder, fired, skipped, tickedMinute>>
    /\ UNCHANGED <<analytics, adherenceStats, behaviorAnalysis, dbError, toasts, alerts,
                   fetching>>
    /\ UNCHANGED serverVars /\ UNCHANGED <<now, observe>>

\* handleAuth with isLogin: POST /api/auth/login; if (res.ok) setAuth(data.user,
\* data.token), upon which the effect on [token] calls fetchData().
handleAuth(u, match, reached) ==
    /\ token.kind = "none"
    /\ fetching.pc = "idle"
    /\ Login(TokenNone, users[u].email, match)
    /\ IF response'.status = 200
       THEN /\ token' = TokenOf(u)
            /\ user' = <<users[u]>>
            /\ fetching' = [pc |-> "requests", reached |-> reached, res |-> <<>>,
                            installed |-> FALSE]
       ELSE UNCHANGED <<token, user, fetching>>
    /\ UNCHANGED <<medicinesRef, logsRef, lastReminded, notificationHistory,
                   activeReminder, fired, skipped, tickedMinute>>
    /\ UNCHANGED <<analytics, adherenceStats, behaviorAnalysis, dbError, toasts, alerts>>
    /\ UNCHANGED <<variant, dbConnected, now, observe>>

\* The page of user 1, who has a medicine with a reminder time, loaded; user 2
\* has an account and no medicine.
InitSession ==
    /\ variant \in Variants
    /\ dbConnected = TRUE
    /\ users = [u \in UserIds |->
                  [email |-> u, reminder_sound |-> <<"default">>, language |-> "en"]]
    /\ \E reminder_time \in Minutes :
          medicines = <<[id |-> 1, user_id |-> 1, name |-> "A",
                         reminder_time |-> <<reminder_time>>, snoozed_until |-> <<>>]>>
    /\ logs = <<>>
    /\ nextUserId = MaxUsers + 1 /\ nextMedId = 2 /\ nextLogId = 1
    /\ response = NoResponse
    /\ observe = TRUE
    /\ now = 0
    /\ token = TokenOf(1)
    /\ medicinesRef = medicines
    /\ logsRef = <<>>
    /\ lastReminded = {}
    /\ notificationHistory = <<>>
    /\ activeReminder = <<>>
    /\ fired = <<>>
    /\ skipped = <<>>
    /\ tickedMinute = FALSE
    /\ InitPage

NextSession ==
    \/ logout
    \/ \E u \in UserIds, match \in BOOLEAN, reached \in BOOLEAN : handleAuth(u, match, reached)
    \/ fetchRespond
    \/ fetchSettle
    \/ installMedicines
    \/ installLogs
    \/ installAnalytics
    \/ installUser
    \/ installBehavior
    \/ checkReminders
    \/ AdvanceClock

SpecSession == InitSession /\ [][NextSession]_vars

-----------------------------------------------------------------------------
(* The recent-alerts list of a user with several medicines *)

MaxDue == 12

\* The Clear All button of the Recent Alerts dropdown
clearAll ==
    /\ notificationHistory' = <<>>
    /\ UNCHANGED <<token, medicinesRef, logsRef, lastReminded, activeReminder,
                   fired, skipped, tickedMinute, now, observe>>
    /\ UNCHANGED serverVars /\ UNCHANGED pageVars

\* The Send Test Alert button, rendered while the list is empty
sendTestAlert ==
    /\ Len(notificationHistory) = 0
    /\ notificationHistory' = <<[medName |-> "Test Medicine", time |-> MinuteOf(now),
                                 date |-> DateOf(now)]>>
    /\ UNCHANGED <<token, medicinesRef, logsRef, lastReminded, activeReminder,
                   fired, skipped, tickedMinute, now, observe>>
    /\ UNCHANGED serverVars /\ UNCHANGED pageVars

\* How many medicines the user has: few, or as many as the list holds and more.
DueSizes == (1..2) \cup ((HistoryLimit + 1)..MaxDue)

\* The reminder times of the user's medicines: all at one minute, or every
\* second one at the other minute.
DuePatterns == {"together", "alternating"}

dueMedicine(i, pattern) ==
    [id |-> i, user_id |-> 1, name |-> ToString(i),
     reminder_time |-> IF pattern = "together" THEN <<0>> ELSE <<i % MinutesPerDay>>,
     snoozed_until |-> <<>>]

\* The page of a user who has up to MaxDue medicines, loaded.
InitAlerts ==
    /\ variant \in Variants
    /\ dbConnected = TRUE
    /\ users = (1 :> [email |-> 1, reminder_sound |-> <<"default">>, language |-> "en"])
    /\ \E k \in DueSizes, pattern \in DuePatterns :
          /\ medicines = [i \in 1..k |-> dueMedicine(i, pattern)]
          /\ nextMedId = k + 1
    /\ logs = <<>>
    /\ nextUserId = 2 /\ nextLogId = 1
    /\ response = NoResponse
    /\ observe = TRUE
    /\ now = 0
    /\ token = TokenOf(1)
    /\ medicinesRef = medicines
    /\ logsRef = <<>>
    /\ lastReminded = {}
    /\ notificationHistory = <<>>
    /\ activeReminder = <<>>
    /\ fired = <<>>
    /\ skipped = <<>>
    /\ tickedMinute = FALSE
    /\ InitPage

NextAlerts ==
    \/ checkReminders
    \/ AdvanceClock
    \/ clearAll
    \/ sendTestAlert
    \/ handleLogDose(1)

SpecAlerts == InitAlerts /\ [][NextAlerts]_vars

-----------------------------------------------------------------------------
(* The analytics routes over a store that holds a user's dose history *)

MaxBulk == 52
\* The sizes of the stored history: few logs, and sizes around the two limits.
BulkSizes ==
    (0..3) \cup ((DailyLimit - 1)..(DailyLimit + 2)) \cup ((DelayLimit - 1)..MaxBulk)
BulkPatterns == {"ascending", "descending", "paired", "scattered"}
BulkStatuses == {"taken", "alternating"}

\* The date of the i-th of n logs POST /api/logs stored, one pattern per order
\* in which a client may have reported its doses.
bulkDate(i, n, pattern) ==
    IF pattern = "ascending" THEN i
    ELSE IF pattern = "descending" THEN n - i
    ELSE IF pattern = "paired" THEN i \div 2
    ELSE (i * 7) % (n + 1)

\* The logs of the history carry the ids handed out before nextLogId = 1.
bulkLog(i, n, pattern, statuses) ==
    [id |-> i - n, medicine_id |-> 1, user_id |-> 1,
     taken_at |-> bulkDate(i, n, pattern) * SlotsPerDay + (i % SlotsPerDay),
     status |-> IF statuses = "taken" \/ i % 2 = 1 THEN "taken" ELSE "missed"]

InitAnalytics ==
    /\ variant \in Variants
    /\ dbConnected = TRUE
    /\ users = <<[email |-> 1, reminder_sound |-> <<"default">>, language |-> "en"]>>
    /\ \E reminder_time \in {<<>>, <<1>>} :
          medicines = <<[id |-> 1, user_id |-> 1, name |-> "A",
                         reminder_time |-> reminder_time, snoozed_until |-> <<>>]>>
    /\ \E n \in BulkSizes, pattern \in BulkPatterns, statuses \in BulkStatuses :
          /\ logs = [i \in 1..n |-> bulkLog(i, n, pattern, statuses)]
          /\ nextLogId = 1
    /\ nextUserId = 2
    /\ nextMedId = 2
    /\ response = NoResponse
    /\ InitClient
    /\ InitPage
    /\ now = (MaxBulk + 1) * SlotsPerDay
    /\ observe = TRUE

NextAnalytics ==
    \/ \E tok \in Tokens : Served(GetAnalytics(tok))
    \/ \E tok \in Tokens : Served(GetBehaviorAnalysis(tok))
    \/ \E tok \in Tokens, id \in MedIds : Served(DeleteMedicine(tok, id))

SpecAnalytics == InitAnalytics /\ [][NextAnalytics]_vars

\* A user with a history logs a dose today and reads the analytics and the logs.
NextHistory ==
    \/ \E id \in MedIds : Served(PostLog(TokenOf(1), LogBody(id, now, "taken", <<>>)))
    \/ Served(GetAnalytics(TokenOf(1)))
    \/ Served(GetLogs(TokenOf(1)))

SpecHistory == InitAnalytics /\ [][NextHistory]_vars

-----------------------------------------------------------------------------
(* Properties of the reminder engine *)

\* How often the medicine id occurs among the medicines a tick fired.
TimesFired(s, id) == Cardinality({i \in DOMAIN s : s[i] = id})

\* Some log of the medicine in the logs snapshot was taken on the current date.
DoseLoggedToday(med) ==
    \E i \in DOMAIN logsRef :
        logsRef[i].medicine_id = med.id /\ DateOf(logsRef[i].taken_at) = DateOf(now)

\* The snooze of the medicine in the snapshot ends after the current time.
SnoozeInFuture(med) ==
    med.snoozed_until # <<>> /\ med.snoozed_until[1] > now

\* The medicine's reminder time is the current minute.
AtReminderMinute(med) == med.reminder_time = <<(now % SlotsPerDay) \div SlotsPerMinute>>

\* C1: for a medicine of the snapshot at its reminder minute, with no dose
\* logged today and no snooze in the future, the first polling tick of that
\* minute fires exactly one reminder and marks the key (medicine, date, minute);
\* a tick that finds the key marked fires none; and a marked key stays marked.
C1_FiresOncePerMinute ==
    [][/\ lastReminded \subseteq lastReminded'
       /\ checkReminders =>
            \A i \in DOMAIN medicinesRef :
              LET med == medicinesRef[i]
                  key == <<med.id, DateOf(now), MinuteOf(now)>>
              IN (AtReminderMinute(med) /\ ~DoseLoggedToday(med) /\ ~SnoozeInFuture(med)) =>
                   /\ ~tickedMinute => TimesFired(fired', med.id) = 1
                   /\ key \in lastReminded => TimesFired(fired', med.id) = 0
                   /\ TimesFired(fired', med.id) <= 1
                   /\ key \in lastReminded']_vars

\* C1 witness: a later tick of the minute has found the eligible medicine's
\* key marked and fired nothing.
C1_Witness ==
    \E i \in DOMAIN medicinesRef :
        LET med == medicinesRef[i]
        IN /\ AtReminderMinute(med) /\ ~DoseLoggedToday(med) /\ ~SnoozeInFuture(med)
           /\ <<med.id, DateOf(now), MinuteOf(now)>> \in lastReminded
           /\ tickedMinute
           /\ TimesFired(skipped, med.id) = 1
           /\ fired = <<>>

\* C2: a polling tick fires no reminder for a medicine of the snapshot whose
\* snoozed_until is later than the current time.
C2_SnoozedNeverFires ==
    [][checkReminders =>
         \A i \in DOMAIN medicinesRef :
            SnoozeInFuture(medicinesRef[i]) => TimesFired(fired', medicinesRef[i].id) = 0]_vars

\* C2 witness: the last tick skipped a snoozed medicine at its reminder minute
\* that has no dose logged today and whose key is not marked.
C2_Witness ==
    \E i \in DOMAIN medicinesRef :
        LET med == medicinesRef[i]
        IN /\ SnoozeInFuture(med) /\ AtReminderMinute(med) /\ ~DoseLoggedToday(med)
           /\ <<med.id, DateOf(now), MinuteOf(now)>> \notin lastReminded
           /\ tickedMinute
           /\ TimesFired(skipped, med.id) = 1

\* C3: a polling tick fires no reminder for a medicine that has any log of the
\* current date in the logs snapshot.
C3_LoggedTodayNeverFires ==
    [][checkReminders =>
         \A i \in DOMAIN medicinesRef :
            DoseLoggedToday(medicinesRef[i]) => TimesFired(fired', medicinesRef[i].id) = 0]_vars

-----------------------------------------------------------------------------
(* Properties of the server *)

\* A step is a request to one of the routes behind authenticateToken.
ProtectedRequest(tok) ==
    \/ \E b \in ServerSettingsBodies : PutSettings(tok, b)
    \/ GetMe(tok)
    \/ GetMedicines(tok)
    \/ \E b \in ServerMedicineBodies : PostMedicine(tok, b)
    \/ \E id \in MedIds, b \in ServerMedicineBodies : PutMedicine(tok, id, b)
    \/ \E id \in MedIds : DeleteMedicine(tok, id)
    \/ \E id \in MedIds : SnoozeMedicine(tok, id, 1)
    \/ GetLogs(tok)
    \/ \E id \in MedIds, u \in Opt(UserIds) : PostLog(tok, LogBody(id, now, "taken", u))
    \/ GetAnalytics(tok)
    \/ GetBehaviorAnalysis(tok)

\* A step is a request to a route that writes to the store on behalf of a user.
WriteRequest(tok) ==
    \/ \E b \in ServerSettingsBodies : PutSettings(tok, b)
    \/ \E b \in ServerMedicineBodies : PostMedicine(tok, b)
    \/ \E id \in MedIds, b \in ServerMedicineBodies : PutMedicine(tok, id, b)
    \/ \E id \in MedIds : DeleteMedicine(tok, id)
    \/ \E id \in MedIds : SnoozeMedicine(tok, id, 1)
    \/ \E id \in MedIds, u \in Opt(UserIds) : PostLog(tok, LogBody(id, now, "taken", u))

\* A step is a request to any /api route other than the health check.
ApiRequest(tok) ==
    \/ \E e \in Emails : Signup(tok, e)
    \/ \E e \in Emails, match \in BOOLEAN : Login(tok, e, match)
    \/ ProtectedRequest(tok)

\* The store is reachable and the token passes authenticateToken.
Admitted(tok) ==
    /\ variant = "mongo" => dbConnected
    /\ tok.kind = "valid"
    /\ ~isLegacy => tok.id \in DOMAIN users

\* The medicine id names a medicine row of user u.
OwnsMedicine(u, id) == \E m \in Range(medicines) : m.id = id /\ m.user_id = u

\* Every log references a medicine row of the log's own user.
LogsReferenceOwnMedicines ==
    \A l \in Range(logs) : OwnsMedicine(l.user_id, l.medicine_id)

\* The rows of the store that user v owns.
RowsOf(v) ==
    [user |-> IF v \in DOMAIN users THEN <<users[v]>> ELSE <<>>,
     meds |-> SelectSeq(medicines, LAMBDA m : m.user_id = v),
     logs |-> SelectSeq(logs, LAMBDA l : l.user_id = v)]

\* C4: DELETE /medicines/:id by the owner removes the medicine and every log
\* that references it; for an id that names no medicine of the caller it answers
\* success or 404 and leaves every medicine and every log unchanged. Stated for
\* stores in which every log references a medicine of its own user.
C4_DeleteCascades ==
    [][\A u \in UserIds, id \in MedIds :
         (LogsReferenceOwnMedicines /\ Admitted(TokenOf(u)) /\ DeleteMedicine(TokenOf(u), id)) =>
            IF OwnsMedicine(u, id)
            THEN /\ \A m \in Range(medicines') : m.id # id
                 /\ \A l \in Range(logs') : l.medicine_id # id
            ELSE /\ response'.status \in {200, 404}
                 /\ medicines' = medicines
                 /\ logs' = logs]_vars

\* C5: a write request authenticated as user a leaves the rows owned by every
\* other user b as they were: it creates, modifies and deletes none of them.
C5_NoCrossTenantWrite ==
    [][\A a \in UserIds :
         WriteRequest(TokenOf(a)) => \A b \in UserIds \ {a} : RowsOf(b)' = RowsOf(b)]_vars

\* C6: in every reachable store, each log's medicine_id names a medicine whose
\* user_id is the log's user_id.
C6_LogsReferenceOwnMedicines == LogsReferenceOwnMedicines

\* C7: PUT, DELETE and snooze of a medicine id that names no medicine of the
\* caller answer 404.
C7_UnknownMedicineIs404 ==
    [][\A tok \in Tokens, id \in MedIds :
         (Admitted(tok) /\ ~OwnsMedicine(tok.id, id)) =>
            /\ (\E b \in ServerMedicineBodies : PutMedicine(tok, id, b)) => response'.status = 404
            /\ DeleteMedicine(tok, id) => response'.status = 404
            /\ SnoozeMedicine(tok, id, 1) => response'.status = 404]_vars

\* C8: with the store reachable, a request to a protected route with no token is
\* answered 401, with an invalid token 403, with a valid token of a user that
\* has no row 401, and in each case the store is left unchanged.
C8_TokenRequired ==
    [][\A tok \in Tokens :
         ((variant = "mongo" => dbConnected) /\ ProtectedRequest(tok)) =>
            /\ tok.kind = "none" => response'.status = 401 /\ UNCHANGED storeVars
            /\ tok.kind = "invalid" => response'.status = 403 /\ UNCHANGED storeVars
            /\ (tok.kind = "valid" /\ tok.id \notin DOMAIN users) =>
                  response'.status = 401 /\ UNCHANGED storeVars]_vars

LogDates(u) == {l.taken_at \div SlotsPerDay : l \in {m \in Range(logs) : m.user_id = u}}

\* C10: the daily series GET /analytics answers with has at most 30 entries, in
\* strictly ascending date order (so one per date), each for a date of one of
\* the user's logs; the delays list GET /behavior-analysis answers with has at
\* most 50 entries.
C10_SeriesAndDelaysBounded ==
    [][\A tok \in Tokens :
         /\ (Admitted(tok) /\ GetAnalytics(tok)) =>
               LET series == response'.series
               IN /\ Len(series) <= 30
                  /\ Len(series) <= Cardinality(LogDates(tok.id))
                  /\ \A i, j \in DOMAIN series : i < j => series[i].date < series[j].date
                  /\ \A i \in DOMAIN series : series[i].date \in LogDates(tok.id)
         /\ (Admitted(tok) /\ GetBehaviorAnalysis(tok)) =>
               Len(response'.delays) <= 50]_vars

\* C10 witness: a user with logs on more than 30 dates was answered a daily
\* series of 30 entries.
C10_Witness ==
    /\ Cardinality(LogDates(1)) > 30
    /\ response.status = 200
    /\ Len(response.series) = 30

\* The logs of user u taken on date d.
LogsOn(u, d) == {i \in DOMAIN logs : logs[i].user_id = u /\ logs[i].taken_at \div SlotsPerDay = d}

\* The most recent dates of user u: all of them when there are at most 30, and
\* otherwise the 30 latest.
RecentDates(u) ==
    {d \in LogDates(u) : Cardinality({e \in LogDates(u) : e > d}) < 30}

\* C11: the daily series GET /analytics answers with has exactly the most recent
\* 30 dates of the user's logs (all dates when there are fewer), each with the
\* number of the user's logs of that date and the number of those with status
\* 'taken'.
C11_SeriesIsMostRecent ==
    [][\A tok \in Tokens :
         (Admitted(tok) /\ GetAnalytics(tok)) =>
            LET series == response'.series
            IN /\ {series[i].date : i \in DOMAIN series} = RecentDates(tok.id)
               /\ \A i \in DOMAIN series :
                     /\ series[i].total = Cardinality(LogsOn(tok.id, series[i].date))
                     /\ series[i].taken =
                          Cardinality({j \in LogsOn(tok.id, series[i].date) :
                                         logs[j].status = "taken"})]_vars

\* ---------------------------------------------------------------------------
\* Adherence statistics of the dashboard (useMemo over the analytics state)
\* ---------------------------------------------------------------------------

MaxSeries == 4
MaxTotal == 2

\* The entry with the latest date among the entries at the indices in idx.
newestOf(series, idx) ==
    CHOOSE i \in idx : \A j \in idx : series[j].date < series[i].date \/ (series[j].date = series[i].date /\ i <= j)

RECURSIVE sortNewestFirstFrom(_, _)
sortNewestFirstFrom(series, idx) ==
    IF idx = {} THEN <<>>
    ELSE LET i == newestOf(series, idx)
         IN <<series[i]>> \o sortNewestFirstFrom(series, idx \ {i})

\* [...analytics].sort((a, b) => b.date.localeCompare(a.date))
sortNewestFirst(series) == sortNewestFirstFrom(series, DOMAIN series)

\* A scan that stops at a day without doses as well.
RECURSIVE scanStreakStrict(_, _)
scanStreakStrict(sorted, i) ==
    IF i > Len(sorted) THEN 0
    ELSE LET day == sorted[i]
         IN IF day.taken = day.total /\ day.total > 0
            THEN 1 + scanStreakStrict(sorted, i + 1)
            ELSE 0

\* The loop over the sorted days, from index i on.
RECURSIVE scanStreak(_, _)
scanStreak(sorted, i) ==
    IF i > Len(sorted) THEN 0
    ELSE LET day == sorted[i]
         IN IF day.taken = day.total /\ day.total > 0 THEN 1 + scanStreak(sorted, i + 1)
            ELSE IF day.total > 0 THEN 0
            ELSE scanStreak(sorted, i + 1)

streak(series) ==
    IF Len(series) = 0 THEN 0 ELSE scanStreak(sortNewestFirst(series), 1)

\* The useMemo of adherenceStats runs when the analytics state has changed.
renderAdherenceStats ==
    /\ adherenceStats' = [streak |-> streak(analytics)]
    /\ UNCHANGED <<analytics, user, behaviorAnalysis, dbError, toasts, alerts, fetching>>
    /\ UNCHANGED clientVars /\ UNCHANGED serverVars /\ UNCHANGED <<now, observe>>

\* setAnalytics with a series of the server's shape: ascending distinct dates.
SeriesDates == 1..MaxSeries
Counts == {c \in [total : 0..MaxTotal, taken : 0..MaxTotal] : c.taken <= c.total}
seriesOf(dates, counts) ==
    LET dateAt(i) == CHOOSE d \in dates : Cardinality({e \in dates : e < d}) = i - 1
    IN [i \in 1..Cardinality(dates) |->
           [date |-> dateAt(i), total |-> counts[dateAt(i)].total,
            taken |-> counts[dateAt(i)].taken]]

SeriesInputs ==
    UNION {{seriesOf(dates, counts) : counts \in [dates -> Counts]} :
              dates \in SUBSET SeriesDates}

InitStats ==
    /\ InitStore /\ InitClient
    /\ now = 0 /\ observe = TRUE
    /\ analytics \in SeriesInputs
    /\ adherenceStats = [streak |-> 0]
    /\ user = <<>> /\ behaviorAnalysis = <<>> /\ dbError = <<>>
    /\ toasts = <<>> /\ alerts = <<>> /\ fetching = [pc |-> "idle"]

NextStats == renderAdherenceStats

SpecStats == InitStats /\ [][NextStats]_vars

\* A day that counts for the streak, and a day that ends it.
FullyAdherent(day) == day.taken = day.total /\ day.total > 0
BreaksStreak(day) == day.total > 0 /\ day.taken # day.total

\* The days met before the first breaking day when scanning from the newest date.
CountedDays(series) ==
    {i \in DOMAIN series :
        /\ FullyAdherent(series[i])
        /\ \A j \in DOMAIN series : series[j].date > series[i].date => ~BreaksStreak(series[j])}

\* C12: the streak computed from a daily series is the number of fully adherent
\* days (taken = total, total > 0) met when scanning from the newest date to the
\* oldest up to the first day with total > 0 that is not fully adherent; days
\* with total = 0 are skipped; an empty series gives 0.
C12_StreakCountsNewestRun ==
    [][renderAdherenceStats =>
          /\ adherenceStats'.streak = Cardinality(CountedDays(analytics))
          /\ (analytics = <<>> => adherenceStats'.streak = 0)]_vars

\* A streak of two counted across a skipped day without doses and ended by an
\* older day with a missed dose.
C12_Witness ==
    /\ adherenceStats.streak = 2
    /\ \E i, j, k \in DOMAIN analytics :
          /\ BreaksStreak(analytics[i])
          /\ FullyAdherent(analytics[j]) /\ analytics[k].total = 0
          /\ analytics[i].date < analytics[j].date
          /\ analytics[j].date < analytics[k].date
          /\ \E l \in DOMAIN analytics :
                FullyAdherent(analytics[l]) /\ analytics[k].date < analytics[l].date

\* The logs of u that give a delay sample: status 'taken' and a medicine that
\* has a reminder time.
SampledLogs(u) ==
    {i \in DOMAIN logs :
        /\ logs[i].user_id = u /\ logs[i].status = "taken"
        /\ \E m \in MedById(logs[i].medicine_id) : IsSet(m.reminder_time)}

ReminderTimeOf(i) == Val((CHOOSE m \in MedById(logs[i].medicine_id) : TRUE).reminder_time)

\* The delays answered are the samples of the last DelayLimit sampled logs, in
\* log order, each satisfying Sample(log index, delay).
DelaysAre(u, answered, Sample(_, _)) ==
    LET n == Cardinality(SampledLogs(u))
        dropped == IF n > DelayLimit THEN n - DelayLimit ELSE 0
        rank(i) == Cardinality({j \in SampledLogs(u) : j <= i})
    IN /\ Len(answered) = n - dropped
       /\ \A i \in SampledLogs(u) :
             rank(i) > dropped => Sample(i, answered[rank(i) - dropped].delay)

\* The delay is the number of minutes from the reminder time to the time of day
\* of taken_at, the part of a minute included.
ExactDelay(i, delay) ==
    /\ delay.den = SlotsPerMinute
    /\ delay.num = (logs[i].taken_at % SlotsPerDay) - ReminderTimeOf(i) * SlotsPerMinute

\* The delay is a whole number of minutes: minute of the day minus reminder time.
WholeMinuteDelay(i, delay) ==
    /\ delay.num % delay.den = 0
    /\ delay.num = delay.den * (MinuteOf(logs[i].taken_at) - ReminderTimeOf(i))

\* C13 (as stated): every 'taken' log whose medicine has a reminder time gives a
\* delay sample equal to the taken-at time of day minus the reminder time of the
\* same day in whole minutes; other logs give no sample.
C13_DelayInWholeMinutes ==
    [][\A tok \in Tokens :
         (Admitted(tok) /\ GetBehaviorAnalysis(tok)) =>
            DelaysAre(tok.id, response'.delays, WholeMinuteDelay)]_vars

\* C13 (amended): every 'taken' log whose medicine has a reminder time gives a
\* delay sample equal to the taken-at time of day minus the reminder time of the
\* same day in minutes, the seconds of taken_at counting as a fraction of a
\* minute; other logs give no sample.
C13_DelayInMinutes ==
    [][\A tok \in Tokens :
         (Admitted(tok) /\ GetBehaviorAnalysis(tok)) =>
            DelaysAre(tok.id, response'.delays, ExactDelay)]_vars

\* An answer with a sample taken before the reminder time and a sample that is
\* not a whole number of minutes, from a store that has a missed dose as well.
C13_Witness ==
    /\ response.status = 200
    /\ \E i \in DOMAIN response.delays : response.delays[i].delay.num < 0
    /\ \E i \in DOMAIN response.delays :
          response.delays[i].delay.num % response.delays[i].delay.den # 0
    /\ \E i \in DOMAIN logs : logs[i].status = "missed"

\* The logs that POST /api/logs stored for user u with status 'taken' for a
\* medicine of u.
PostedDoses(u) ==
    {i \in DOMAIN logs :
        /\ logs[i].id >= 1 /\ logs[i].user_id = u /\ logs[i].status = "taken"
        /\ OwnsMedicine(u, logs[i].medicine_id)}

\* The series has an entry for the date of log i that counts one more in total
\* and in taken than the user's other logs of that date give.
CountedIn(series, u, i) ==
    LET D == DateOf(logs[i].taken_at)
        others == LogsOn(u, D) \ {i}
    IN \E k \in DOMAIN series :
          /\ series[k].date = D
          /\ series[k].total = Cardinality(others) + 1
          /\ series[k].taken = Cardinality({j \in others : logs[j].status = "taken"}) + 1

\* The list has the log i with the name of its medicine.
ListedIn(list, i) ==
    \E k \in DOMAIN list :
       /\ list[k].id = logs[i].id /\ list[k].taken_at = logs[i].taken_at
       /\ \E m \in MedById(logs[i].medicine_id) : list[k].medicine_name = m.name

\* C14: after a user posts one 'taken' log on date D for a medicine of theirs,
\* the store has that log, GET /analytics has an entry for D whose total and
\* taken are each one higher than without it (1 and 1 for a new user), and
\* GET /logs returns that log with the medicine's name.
C14_LoggedDoseIsCounted ==
    [][\A tok \in Tokens :
         Admitted(tok) =>
            /\ \A id \in MedIds :
                  (/\ OwnsMedicine(tok.id, id)
                   /\ PostLog(tok, LogBody(id, now, "taken", <<>>))
                   /\ response'.status = 200) =>
                      /\ Len(logs') = Len(logs) + 1
                      /\ Len(logs') \in PostedDoses(tok.id)'
            /\ GetAnalytics(tok) =>
                  \A i \in PostedDoses(tok.id) : CountedIn(response'.series, tok.id, i)
            /\ GetLogs(tok) =>
                  \A i \in PostedDoses(tok.id) : ListedIn(response'.logs, i)]_vars

\* A user with a history of DailyLimit dates or more has posted a dose and reads
\* the analytics.
C14_Witness ==
    /\ response.status = 200 /\ response.series # <<>>
    /\ Cardinality(LogDates(1)) > DailyLimit
    /\ PostedDoses(1) # {}

\* C15: POST /medicines/:id/snooze with minutes = d by the owner stores
\* snoozed_until = the server time of the request + d minutes on that medicine
\* and answers with that value; for d <= 0 the stored value is not in the future,
\* and a tick does not take a medicine whose snoozed_until is not in the future
\* for snoozed: at its reminder minute, with no dose logged today and its key
\* unmarked, the tick fires it.
C15_SnoozeStoresServerTimePlusMinutes ==
    [][/\ \A tok \in Tokens, id \in MedIds, d \in SnoozeMinutes :
            (Admitted(tok) /\ OwnsMedicine(tok.id, id) /\ SnoozeMedicine(tok, id, d)) =>
               /\ response'.status = 200
               /\ response'.snoozed_until = <<now + d * SlotsPerMinute>>
               /\ \A m \in MedById(id)' : m.snoozed_until = response'.snoozed_until
               /\ d <= 0 => Val(response'.snoozed_until) <= now
       /\ checkReminders =>
            \A i \in DOMAIN medicinesRef :
               LET med == medicinesRef[i]
               IN (/\ IsSet(med.snoozed_until) /\ Val(med.snoozed_until) <= now
                   /\ AtReminderMinute(med) /\ ~DoseLoggedToday(med)
                   /\ <<med.id, DateOf(now), MinuteOf(now)>> \notin lastReminded) =>
                     TimesFired(fired', med.id) = 1]_vars

\* A snooze of -1 minute at time 0 was stored and answered, the page has loaded
\* it, and a later tick at the reminder minute fired the medicine.
C15_Witness ==
    /\ response.snoozed_until = <<0 - SlotsPerMinute>>
    /\ now > 0
    /\ \E i \in DOMAIN medicinesRef :
          /\ medicinesRef[i].snoozed_until = response.snoozed_until
          /\ AtReminderMinute(medicinesRef[i])
          /\ TimesFired(fired, medicinesRef[i].id) = 1

\* A step is handleAiParse with a parseMedicineInput that fails.
ParseFails ==
    \E outcome \in ParseOutcomes \ {"parsed"}, parsed \in ClientMedicineBodies :
       handleAiParse(outcome, parsed)

\* C16: if parseMedicineInput fails (the model call rejects or its text is not
\* valid JSON), handleAiParse shows an alert, issues no POST /medicines, creates
\* no medicine and shows no success toast.
C16_ParseFailureAlertsOnly ==
    [][ParseFails =>
          /\ Len(alerts') = Len(alerts) + 1
          /\ response' = response
          /\ medicines' = medicines /\ nextMedId' = nextMedId
          /\ medicinesRef' = medicinesRef
          /\ toasts' = toasts]_vars

\* An alert of a failed parse is on screen while the user has no medicine; a
\* success toast of an earlier parse is still shown.
C16_Witness ==
    /\ alerts # <<>>
    /\ alerts[Len(alerts)] = "Could not understand the medicine instructions. Please try again."
    /\ medicines = <<>>
    /\ toasts # <<>>

\* The refresh has all its responses and one of them has status 503.
RefreshSees503 == fetchSettle /\ IsSet(anyRes(fetching.res))

\* A step of the refresh that sets one of the five states.
RefreshInstalls ==
    installMedicines \/ installLogs \/ installAnalytics \/ installUser \/ installBehavior

\* C17: if any of the five responses of a refresh has status 503, the refresh
\* sets the connectivity banner, ends, and updates none of the medicines, logs,
\* analytics, user and behavior-analysis states; a refresh with no 503 clears
\* the banner.
C17_Refresh503SetsBannerOnly ==
    [][/\ RefreshSees503 =>
            /\ dbError' # <<>>
            /\ fetching'.pc = "idle"
            /\ UNCHANGED <<medicinesRef, logsRef, analytics, user, behaviorAnalysis>>
       /\ RefreshInstalls => ~IsSet(anyRes(fetching.res))
       /\ (fetchSettle /\ ~IsSet(anyRes(fetching.res))) => dbError' = <<>>]_vars

\* C18: no polling tick runs between the moment a refresh installs its medicines
\* and the moment it installs its logs, so a tick never reads the medicines of
\* one refresh with the logs of an older one.
C18_TickReadsOneRefresh ==
    [][checkReminders => ~(fetching.pc = "logs" /\ fetching.installed)]_vars

\* A tick has fired the reminder of a medicine that the refresh in progress has
\* installed, while the dose of today that the same refresh has fetched is not
\* installed yet.
C18_Witness ==
    /\ fetching.pc = "logs" /\ fetching.installed
    /\ \E i \in DOMAIN medicinesRef :
          /\ TimesFired(fired, medicinesRef[i].id) = 1
          /\ \E j \in DOMAIN fetching.res[2].logs :
                /\ fetching.res[2].logs[j].medicine_id = medicinesRef[i].id
                /\ DateOf(fetching.res[2].logs[j].taken_at) = DateOf(now)
          /\ logsRef = <<>>

\* The keys of lastRemindedRef of medicine id on date d: one for every minute at
\* which a reminder of the medicine fired on that date in this page session.
FiredOn(id, d) == {key \in lastReminded : key[1] = id /\ key[2] = d}

\* C19: within one page session and with the reminder_time of a medicine left
\* as it is, at most one reminder fires for the medicine per calendar date: a
\* tick fires a medicine only if none fired for it earlier on the date, whether
\* the earlier reminder was dismissed, snoozed (and the snooze has expired) or
\* ignored; and every firing is recorded.
C19_OneReminderPerDate ==
    [][checkReminders =>
         \A i \in DOMAIN medicinesRef :
            LET med == medicinesRef[i]
            IN /\ TimesFired(fired', med.id) <= 1
               /\ TimesFired(fired', med.id) = 1 =>
                     /\ FiredOn(med.id, DateOf(now)) = {}
                     /\ Cardinality(FiredOn(med.id, DateOf(now))') = 1]_vars

\* The reminder of today has fired and was snoozed, the snooze has expired, no
\* dose is logged, and a tick at a later minute of the date has fired nothing.
C19_Witness ==
    \E i \in DOMAIN medicinesRef :
        LET med == medicinesRef[i]
        IN /\ FiredOn(med.id, DateOf(now)) # {}
           /\ IsSet(med.snoozed_until) /\ Val(med.snoozed_until) <= now
           /\ Val(med.snoozed_until) > DateOf(now) * SlotsPerDay
           /\ IsSet(med.reminder_time) /\ MinuteOf(now) > Val(med.reminder_time)
           /\ ~DoseLoggedToday(med)
           /\ activeReminder = <<>>
           /\ tickedMinute /\ fired = <<>>

\* C20: a reminder fires only in a tick whose HH:mm equals the reminder_time of
\* the medicine, so that a reminder whose minute passed without a tick does not
\* fire at a later minute of the date.
C20_FiresOnlyAtReminderMinute ==
    [][checkReminders =>
         \A i \in DOMAIN medicinesRef :
            TimesFired(fired', medicinesRef[i].id) >= 1 =>
               medicinesRef[i].reminder_time = <<MinuteOf(now)>>]_vars

\* No tick ran during the reminder minute of today; a tick at a later minute of
\* the date found the medicine neither snoozed nor taken and fired nothing.
C20_Witness ==
    \E i \in DOMAIN medicinesRef :
        LET med == medicinesRef[i]
        IN /\ IsSet(med.reminder_time) /\ MinuteOf(now) > Val(med.reminder_time)
           /\ FiredOn(med.id, DateOf(now)) = {}
           /\ ~SnoozeInFuture(med) /\ ~DoseLoggedToday(med)
           /\ med.snoozed_until = <<>>
           /\ tickedMinute /\ fired = <<>>

\* The medicines of the snapshot a tick at this moment finds due: at their
\* reminder minute, no dose logged today, no snooze in the future, key unmarked.
DueNow ==
    {i \in DOMAIN medicinesRef :
        LET med == medicinesRef[i]
        IN /\ AtReminderMinute(med) /\ ~DoseLoggedToday(med) /\ ~SnoozeInFuture(med)
           /\ <<med.id, DateOf(now), MinuteOf(now)>> \notin lastReminded}

\* The entry of the recent-alerts list for a reminder of med fired now.
AlertOf(med) == [medName |-> med.name, time |-> MinuteOf(now), date |-> DateOf(now)]

Min(a, b) == IF a < b THEN a ELSE b

\* C21: when k >= 2 medicines of the snapshot are due in the same minute, one
\* tick fires all k: each is fired once, each has its own key marked, and each
\* has its own entry in the recent-alerts list, the later medicine in front,
\* as far as the cap of 10 entries lets it in.
C21_AllDueFire ==
    [][(checkReminders /\ Cardinality(DueNow) >= 2) =>
          /\ Len(fired') = Cardinality(DueNow)
          /\ \A i \in DueNow :
                LET med == medicinesRef[i]
                    after == Cardinality({j \in DueNow : j > i})
                IN /\ TimesFired(fired', med.id) = 1
                   /\ <<med.id, DateOf(now), MinuteOf(now)>> \in lastReminded'
                   /\ after < HistoryLimit =>
                         notificationHistory'[after + 1] = AlertOf(med)
          /\ Cardinality(lastReminded') = Cardinality(lastReminded) + Cardinality(DueNow)
          /\ Len(notificationHistory') =
                Min(HistoryLimit, Len(notificationHistory) + Cardinality(DueNow))]_vars

\* One tick has fired more medicines than the list holds, while another medicine
\* at the same minute was left out because its dose is logged.
C21_Witness ==
    /\ Len(fired) > HistoryLimit
    /\ skipped # <<>>
    /\ Len(notificationHistory) = HistoryLimit
    /\ \A i \in DOMAIN fired :
          <<fired[i], DateOf(now), MinuteOf(now)>> \in lastReminded

\* The entries the list gets for the medicines a tick fired, the last fired first.
FiredAlerts(ids) ==
    [j \in DOMAIN ids |->
        LET id == ids[Len(ids) + 1 - j]
        IN AlertOf(CHOOSE med \in Range(medicinesRef) : med.id = id)]

\* Entry a is not older than entry b.
NotOlder(a, b) == a.date > b.date \/ (a.date = b.date /\ a.time >= b.time)

\* C22: the recent-alerts list always holds at most 10 entries, newest first; a
\* tick puts the entry of each reminder it fires at the front and drops the
\* oldest entries beyond 10.
C22_RecentAlertsCapped ==
    /\ [](/\ Len(notificationHistory) <= 10
          /\ \A i, j \in DOMAIN notificationHistory :
                i < j => NotOlder(notificationHistory[i], notificationHistory[j]))
    /\ [][checkReminders =>
            LET all == FiredAlerts(fired') \o notificationHistory
            IN notificationHistory' = SubSeq(all, 1, Min(10, Len(all)))]_vars

\* More than 10 reminders have fired in the session; the list holds 10 entries,
\* those of the last minute in front of the newest of the minute before.
C22_Witness ==
    /\ Cardinality(lastReminded) > HistoryLimit
    /\ Len(notificationHistory) = HistoryLimit
    /\ notificationHistory[1].time # notificationHistory[HistoryLimit].time
    /\ notificationHistory[1].time = MinuteOf(now)
    /\ \E med \in Range(medicinesRef) :
          /\ <<med.id, DateOf(now), 0>> \in lastReminded
          /\ \A i \in DOMAIN notificationHistory : notificationHistory[i].medName # med.name

\* The call in progress or just ended has made this many attempts.
Attempts == IF "outcomes" \in DOMAIN fetching THEN Len(fetching.outcomes) ELSE 0

\* The outcome of the k-th attempt sent the call into another attempt.
Retried(k) ==
    \/ fetching.outcomes[k].kind = "error"
    \/ shouldRetry(fetching.outcomes[k].res)

\* C23: authenticatedFetch(url, options, n) makes at most n + 1 attempts and
\* ends: it returns the first response not classified as warm-up or invalid,
\* returns the last response when the retries are used up on such responses, and
\* throws the last error when they are used up on errors.
C23_RetryIsBounded ==
    /\ [](fetching.pc \in {"fetch", "returned", "threw"} =>
            /\ Attempts <= fetching.n + 1
            /\ Attempts = fetching.n - fetching.retries
                            + (IF fetching.pc = "fetch" THEN 0 ELSE 1)
            /\ \A k \in 1..(Attempts - 1) : Retried(k)
            /\ fetching.pc = "fetch" => \A k \in 1..Attempts : Retried(k)
            /\ fetching.pc = "returned" =>
                  /\ fetching.outcomes[Attempts].kind = "response"
                  /\ \/ ~shouldRetry(fetching.outcomes[Attempts].res)
                     \/ Attempts = fetching.n + 1
            /\ fetching.pc = "threw" =>
                  /\ fetching.outcomes[Attempts].kind = "error"
                  /\ Attempts = fetching.n + 1)
    /\ (fetching.pc = "fetch") ~> (fetching.pc \in {"returned", "threw"})

\* A call with two retries has made three attempts: an error, a warm-up answer
\* and an error, which it has thrown.
C23_Witness ==
    /\ fetching.pc = "threw"
    /\ fetching.n = 2
    /\ Attempts = 3
    /\ fetching.outcomes[2].kind = "response"

\* The log row is what POST /api/logs stores for this body and user.
StoredFrom(l, body, u) ==
    /\ l.user_id = u /\ l.medicine_id = body.medicine_id
    /\ l.taken_at = body.taken_at /\ l.status = body.status

\* C24: one handleLogDose call can create two DoseLog rows.  The server stores
\* the body of every attempt that reaches it and that it answers ok, whether or
\* not a row with the same medicine, taken-at and status is stored already; so
\* when the answer to the first POST is lost, the retry of the same body is
\* stored again.
C24_RetryStoresAgain ==
    [][((attemptAnswered \/ attemptLost) /\ response'.status = 200) =>
          /\ Len(logs') = Len(logs) + 1
          /\ \A i \in DOMAIN logs : logs'[i] = logs[i]
          /\ StoredFrom(logs'[Len(logs')], fetching.body, token.id)]_vars

\* One call has ended after two attempts, the first of which threw and the
\* second of which was answered ok, and the logs table has two rows of its body
\* more than when it began.
C24_Witness ==
    /\ fetching.pc = "returned"
    /\ Attempts = 2
    /\ fetching.outcomes[1].kind = "error"
    /\ fetching.outcomes[2].res.status = 200
    /\ Len(logs) = fetching.logsBefore + 2
    /\ \A i \in (fetching.logsBefore + 1)..Len(logs) :
          StoredFrom(logs[i], fetching.body, token.id)
    /\ now > fetching.body.taken_at

\* C25: when DELETE /medicines/:id for a medicine runs concurrently with a
\* POST /logs for it by the same user, then after both have completed no log
\* references the medicine, in every interleaving of the delete's two statements
\* with the insert.
C25_DeleteAndLogLeaveNoOrphan ==
    (fetching.pc = "idle" /\ response.status = 200 /\ response.body = "success") =>
        \A l \in Range(logs) : MedById(l.medicine_id) # {}

\* The Mongo server has answered the DELETE with success after the POST, the
\* medicine is gone, and the log inserted between the two statements of the
\* delete is in the store.
C25_Witness ==
    /\ variant = "mongo"
    /\ fetching.pc = "idle"
    /\ response.status = 200 /\ response.body = "success"
    /\ medicines = <<>>
    /\ \E l \in Range(logs) : l.medicine_id = 1 /\ l.user_id = token.id

\* The store has a log of the page's user for the medicine taken on the current
\* date: a POST /logs for it was acknowledged today.
AcknowledgedToday(med) ==
    \E l \in Range(logs) :
       /\ l.user_id = token.id /\ l.medicine_id = med.id
       /\ DateOf(l.taken_at) = DateOf(now)

\* C26: once a POST /logs for a medicine with a taken-at of today has been
\* acknowledged to the page, no later tick on that date fires a reminder for
\* the medicine, the ticks before the refresh of the log action has resolved
\* included.
C26_NoReminderAfterLoggedDose ==
    [][checkReminders =>
         \A i \in DOMAIN medicinesRef :
            AcknowledgedToday(medicinesRef[i]) =>
               TimesFired(fired', medicinesRef[i].id) = 0]_vars

\* A tick has fired the reminder of a medicine whose dose of today the server
\* has acknowledged, while the requests of the refresh that handleLogDose
\* started are pending.
C26_Witness ==
    /\ fetching.pc = "requests"
    /\ \E i \in DOMAIN medicinesRef :
          /\ AcknowledgedToday(medicinesRef[i])
          /\ TimesFired(fired, medicinesRef[i].id) = 1
          /\ <<medicinesRef[i].id, DateOf(now), MinuteOf(now)>> \in lastReminded

\* C27: the user_id of a medicine never changes after creation: POST /medicines
\* stores the id of the authenticated user whatever user_id the body carries,
\* and no request changes the user_id of a stored medicine.
C27_MedicineOwnerIsFixed ==
    [][/\ \A m \in Range(medicines), n \in Range(medicines') :
             m.id = n.id => m.user_id = n.user_id
       /\ \A tok \in Tokens, b \in ServerMedicineBodies :
             (PostMedicine(tok, b) /\ response'.status = 200) =>
                /\ Len(medicines') = Len(medicines) + 1
                /\ medicines'[Len(medicines')].user_id = tok.id]_vars

\* A medicine belongs to a user id that has no row in the users table, although
\* only a user with a row can create a medicine: a PUT with user_id in its body
\* has handed it over.
C27_Witness ==
    /\ ~isLegacy
    /\ response.status = 200 /\ response.body = "success"
    /\ \E m \in Range(medicines) : m.user_id \notin DOMAIN users

\* C28: when two refreshes overlap, the medicines and logs state after both
\* have completed is the data of the refresh that was started last: the answers
\* of the older refresh never overwrite those of the newer one.
C28_NewerRefreshWins ==
    (fetching.older.pc = "done" /\ fetching.newer.pc = "done") =>
        /\ medicinesRef = fetching.newer.res.meds
        /\ logsRef = fetching.newer.res.logs

\* Both refreshes have completed; the newer one fetched the medicine with its
\* snooze and the dose of today, and the page shows the medicine without the
\* snooze, as the older one fetched it.
C28_Witness ==
    /\ fetching.older.pc = "done" /\ fetching.newer.pc = "done"
    /\ medicinesRef = fetching.older.res.meds
    /\ \E i \in DOMAIN medicinesRef : medicinesRef[i].snoozed_until = <<>>
    /\ \E i \in DOMAIN fetching.newer.res.meds :
          IsSet(fetching.newer.res.meds[i].snoozed_until)
    /\ logsRef = fetching.newer.res.logs /\ logsRef # <<>>

\* What the four reads answer user a with in the current store.
ReadsOf(a) ==
    [meds |-> MedsOf(a), logs |-> logsWithNames(a), series |-> dailySeries(a),
     delays |-> IF isLegacy THEN <<>> ELSE delays(a),
     medicineStats |-> IF isLegacy THEN <<>> ELSE medicineStats(a)]

\* C29: the answers to user a's reads (GET /medicines, /logs, /analytics,
\* /behavior-analysis) depend only on rows owned by a: a request of another
\* user, a dose log posted with the id of one of a's medicines included, leaves
\* each of them as it was, and every read answers with them.
C29_ReadsDependOnOwnRows ==
    [][\A a \in UserIds :
         /\ \A b \in UserIds \ {a} : TenantWrite(TokenOf(b)) => ReadsOf(a)' = ReadsOf(a)
         /\ (GetMedicines(TokenOf(a)) /\ response'.status = 200) =>
               response'.meds = ReadsOf(a).meds
         /\ (GetLogs(TokenOf(a)) /\ response'.status = 200) =>
               response'.logs = ReadsOf(a).logs
         /\ (GetAnalytics(TokenOf(a)) /\ response'.status = 200) =>
               response'.series = ReadsOf(a).series
         /\ (GetBehaviorAnalysis(TokenOf(a)) /\ response'.status = 200) =>
               /\ response'.delays = ReadsOf(a).delays
               /\ response'.medicineStats = ReadsOf(a).medicineStats]_vars

\* The SQLite server has answered /behavior-analysis with a medicine of the
\* reader whose total counts a log of another user.
C29_Witness ==
    /\ variant = "sqlite"
    /\ response.status = 200
    /\ \E k \in DOMAIN response.medicineStats : response.medicineStats[k].total > 0
    /\ \E m \in Range(medicines) :
          /\ \A l \in Range(logs) : l.user_id # m.user_id
          /\ \E l \in Range(logs) : l.medicine_id = m.id

\* C30: a reminder fires only for a medicine of the user logged in at the time
\* of the tick: no tick runs while no token is held, and after a login as
\* another user no tick fires a reminder for a medicine of the user before,
\* the ticks before the first refresh of the new session has resolved included.
C30_FiresOnlyForLoggedInUser ==
    [][checkReminders =>
          /\ token.kind = "valid"
          /\ \A i \in DOMAIN fired' : OwnsMedicine(token.id, fired'[i])]_vars

\* User 2 is logged in, the requests of the first refresh of the session are
\* pending, and a tick has fired the reminder of a medicine of user 1.
C30_Witness ==
    /\ token = TokenOf(2)
    /\ fetching.pc = "requests"
    /\ fired # <<>>
    /\ \A i \in DOMAIN fired : OwnsMedicine(1, fired[i])
    /\ activeReminder # <<>>

====
